---- MODULE Spec2Model ----
(***************************************************************************)
(* Verification model of the orchestration scripts of                      *)
(* jeff87654/symmetric-group-subgroups.  Each script (or small group of    *)
(* scripts working on the same files) is one state machine with its own    *)
(* record-valued variable and its own specification; the variables of the  *)
(* other scripts stay at their idle value.                                 *)
(***************************************************************************)
EXTENDS Integers, Sequences, FiniteSets, TLC

VARIABLES
    tc,     \* triple_check/dedupe/prepare_tc_dedupe.py : main()
    leaf,   \* phase_a2_compute_leaves.py : main(), run_leaf_worker(), the GAP workers
    dedup,  \* dedup_parallel.py and rerun_phase_b2b3_s15.py : main() and the phases
    iso,    \* s16_processing/build_s15_iso_map.py : main(), UnionFind
    cov,    \* s15_proof_certificate/verify_proof_coverage.py
    proofs, \* s16_dedupe/append_new_proofs.py, launch_verify_new_proofs.py
    launch, \* triple_check/dedupe/launch_tc_dedupe.py : main(), run_validation()
    par,    \* process_s16_subgroups.py and launch_factor_idgroups.py : main()
    merge,  \* merge_tc_results.py, merge_s16_results.py, merge_qc_results.py : main()
    tmo,    \* phase_a1_enumerate.run_enumeration, phase_a2 run_leaf_worker : timeouts
    pack,   \* greedy_bin_pack, create_leaf_batches, distribute_buckets, Phase B-1
    a4,     \* phase_a4_combine.merge_leaf_results and main's summary
    mr,     \* triple_check/merge_results.main : the large-group file
    tr,     \* Partition/tests/run_all_tests.main : the test runner
    plf,    \* merge_s16_results.py, merge_results.py : parse_large_groups_file()
    rng     \* quad_check/launch_factor_idgroups.py : main(), the workers' ranges

vars == <<tc, leaf, dedup, iso, cov, proofs, launch, par, merge, tmo, pack, a4, mr, tr, plf, rng>>

(***************************************************************************)
(* Generic helpers (Python built-ins used by the scripts).                 *)
(***************************************************************************)
\* the set of elements of a sequence: set(list)
Range(s) == {s[k] : k \in DOMAIN s}

\* list.count(x)
Count(s, x) == Cardinality({k \in DOMAIN s : s[k] = x})

RECURSIVE Flatten(_)
\* [x for sub in lists for x in sub]
Flatten(ss) == IF ss = <<>> THEN <<>> ELSE Head(ss) \o Flatten(Tail(ss))

RECURSIVE InsertAsc(_, _)
InsertAsc(s, x) ==
    IF s = <<>> THEN <<x>>
    ELSE IF x < Head(s) THEN <<x>> \o s
    ELSE <<Head(s)>> \o InsertAsc(Tail(s), x)

RECURSIVE Sorted(_)
\* sorted(list of int)
Sorted(s) == IF s = <<>> THEN <<>> ELSE InsertAsc(Sorted(Tail(s)), Head(s))

\* min(list of int)
Min(s) == CHOOSE m \in Range(s) : \A x \in Range(s) : m <= x

\* list.index(v): the first position holding v
IndexOf(s, v) == CHOOSE k \in DOMAIN s : s[k] = v /\ \A l \in 1..(k-1) : s[l] # v

(***************************************************************************)
(* triple_check/dedupe/prepare_tc_dedupe.py                                *)
(***************************************************************************)
\* number of records of the invariants file (10687 in the repository)
NumRecords == 3
\* num_bins handed to greedy_bin_pack (NUM_REGULAR_WORKERS = 10 in the
\* repository; scaled so that buckets have to share a bin)
NumBins == 2

DIFFICULT_SIGKEY == "[ 2592, 162, 42, 3, [ 2, 2, 2, 2 ] ]"
DIFFICULT_HISTOGRAM == "[ [ 1, 1 ], [ 2, 243 ], [ 3, 80 ], [ 4, 972 ], [ 6, 1296 ] ]"
TWO_GROUP_ORDERS == {512, 1024, 2048}

\* the sigKey strings and histogram strings occurring in the input
SigKeys == {DIFFICULT_SIGKEY, "[ 512, 8, 90, 3, [ 2, 2 ] ]"}
Histograms == {DIFFICULT_HISTOGRAM, "[ [ 1, 1 ], [ 2, 511 ] ]"}

\* parse_clean_file, line 97-98: the order is the first entry of the sigKey
SigKeyOrder(sigkey) == IF sigkey = DIFFICULT_SIGKEY THEN 2592 ELSE 512

\* a parsed record; the file lists the records 1..N in index order
ParsedRecord(idx, sk, h, dp) ==
    [index |-> idx, sigKey_str |-> sk, histogram_str |-> h,
     order |-> SigKeyOrder(sk), isDirectProduct |-> dp]

create_bucket_key(rec) == <<rec.sigKey_str, rec.histogram_str>>

is_power_of_2(n) == n > 0 /\ \E k \in 0..12 : n = 2^k

\* position of the bucket with this key in the insertion-ordered dict, 0 if none
BucketPos(bs, key) ==
    IF \E k \in DOMAIN bs : bs[k].key = key
    THEN CHOOSE k \in DOMAIN bs : bs[k].key = key ELSE 0

\* buckets[key].append(index) on a defaultdict(list)
BucketAppend(bs, key, idx) ==
    IF BucketPos(bs, key) = 0
    THEN Append(bs, [key |-> key, indices |-> <<idx>>])
    ELSE [bs EXCEPT ![BucketPos(bs, key)].indices = Append(@, idx)]

\* the category drawn from a bucket with no 2-group branch (a mutant)
BucketCategoryNoTwoGroup(records, indices) ==
    LET sample == records[indices[1]]
        is_difficult == /\ sample.sigKey_str = DIFFICULT_SIGKEY
                        /\ sample.histogram_str = DIFFICULT_HISTOGRAM
                        /\ ~sample.isDirectProduct
        all_dp == \A k \in DOMAIN indices : records[indices[k]].isDirectProduct
    IN  IF is_difficult THEN "difficult"
        ELSE IF all_dp THEN "dp"
        ELSE IF is_power_of_2(sample.order) /\ sample.order \in TWO_GROUP_ORDERS
             THEN "none"
        ELSE "regular"

\* assign_buckets, the body of the loop over buckets.items()
BucketCategory(records, indices) ==
    LET sample == records[indices[1]]
        is_difficult == /\ sample.sigKey_str = DIFFICULT_SIGKEY
                        /\ sample.histogram_str = DIFFICULT_HISTOGRAM
                        /\ ~sample.isDirectProduct
        all_dp == \A k \in DOMAIN indices : records[indices[k]].isDirectProduct
        is_2group == is_power_of_2(sample.order) /\ sample.order \in TWO_GROUP_ORDERS
    IN  IF is_difficult THEN "difficult"
        ELSE IF all_dp THEN "dp"
        ELSE IF is_2group THEN "two_group"
        ELSE "regular"

RECURSIVE InsertBySizeDesc(_, _)
\* stable insertion: an item goes behind the items of at least its size
InsertBySizeDesc(s, b) ==
    IF s = <<>> THEN <<b>>
    ELSE IF Len(b.indices) > Len(Head(s).indices) THEN <<b>> \o s
    ELSE <<Head(s)>> \o InsertBySizeDesc(Tail(s), b)

RECURSIVE SortBySizeDesc(_)
\* bucket_items.sort(key=lambda x: x[2], reverse=True): stable, largest first
SortBySizeDesc(s) ==
    IF s = <<>> THEN <<>>
    ELSE InsertBySizeDesc(SortBySizeDesc(SubSeq(s, 1, Len(s) - 1)), s[Len(s)])

\* sorted([idx for indices in buckets.values() for idx in indices])
BucketIndices(bs) == Sorted(Flatten([k \in DOMAIN bs |-> bs[k].indices]))

TCIdle == tc = [pc |-> "idle"]
LeafIdle == leaf = [pc |-> "idle"]
DedupIdle == dedup = [pc |-> "idle"]
IsoIdle == iso = [pc |-> "idle"]
CovIdle == cov = [pc |-> "idle"]
ProofsIdle == proofs = [pc |-> "idle"]
LaunchIdle == launch = [pc |-> "idle"]
ParIdle == par = [pc |-> "idle"]
MergeIdle == merge = [pc |-> "idle"]
TmoIdle == tmo = [pc |-> "idle"]
PackIdle == pack = [pc |-> "idle"]
A4Idle == a4 = [pc |-> "idle"]
MrIdle == mr = [pc |-> "idle"]
TrIdle == tr = [pc |-> "idle"]
PlfIdle == plf = [pc |-> "idle"]
RngIdle == rng = [pc |-> "idle"]

\* the scripts other than m are not running
Idle(m) ==
    /\ IF m = "tc" THEN TRUE ELSE TCIdle
    /\ IF m = "leaf" THEN TRUE ELSE LeafIdle
    /\ IF m = "dedup" THEN TRUE ELSE DedupIdle
    /\ IF m = "iso" THEN TRUE ELSE IsoIdle
    /\ IF m = "cov" THEN TRUE ELSE CovIdle
    /\ IF m = "proofs" THEN TRUE ELSE ProofsIdle
    /\ IF m = "launch" THEN TRUE ELSE LaunchIdle
    /\ IF m = "par" THEN TRUE ELSE ParIdle
    /\ IF m = "merge" THEN TRUE ELSE MergeIdle
    /\ IF m = "tmo" THEN TRUE ELSE TmoIdle
    /\ IF m = "pack" THEN TRUE ELSE PackIdle
    /\ IF m = "a4" THEN TRUE ELSE A4Idle
    /\ IF m = "mr" THEN TRUE ELSE MrIdle
    /\ IF m = "tr" THEN TRUE ELSE TrIdle
    /\ IF m = "plf" THEN TRUE ELSE PlfIdle
    /\ IF m = "rng" THEN TRUE ELSE RngIdle

\* ... and their state does not change
Frame(m) ==
    /\ IF m = "tc" THEN TRUE ELSE UNCHANGED tc
    /\ IF m = "leaf" THEN TRUE ELSE UNCHANGED leaf
    /\ IF m = "dedup" THEN TRUE ELSE UNCHANGED dedup
    /\ IF m = "iso" THEN TRUE ELSE UNCHANGED iso
    /\ IF m = "cov" THEN TRUE ELSE UNCHANGED cov
    /\ IF m = "proofs" THEN TRUE ELSE UNCHANGED proofs
    /\ IF m = "launch" THEN TRUE ELSE UNCHANGED launch
    /\ IF m = "par" THEN TRUE ELSE UNCHANGED par
    /\ IF m = "merge" THEN TRUE ELSE UNCHANGED merge
    /\ IF m = "tmo" THEN TRUE ELSE UNCHANGED tmo
    /\ IF m = "pack" THEN TRUE ELSE UNCHANGED pack
    /\ IF m = "a4" THEN TRUE ELSE UNCHANGED a4
    /\ IF m = "mr" THEN TRUE ELSE UNCHANGED mr
    /\ IF m = "tr" THEN TRUE ELSE UNCHANGED tr
    /\ IF m = "plf" THEN TRUE ELSE UNCHANGED plf
    /\ IF m = "rng" THEN TRUE ELSE UNCHANGED rng

TCInit ==
    /\ Idle("tc")
    /\ \E sk \in [1..NumRecords -> SigKeys], h \in [1..NumRecords -> Histograms],
       dp \in [1..NumRecords -> BOOLEAN] :
         tc = [pc |-> "group",
              records |-> [k \in 1..NumRecords |-> ParsedRecord(k, sk[k], h[k], dp[k])],
              i |-> 1,
              buckets |-> <<>>,
              dp_buckets |-> <<>>, two_group_buckets |-> <<>>,
              regular_buckets |-> <<>>, difficult_bucket_indices |-> <<>>,
              bucket_items |-> <<>>,
              bins |-> [b \in 1..NumBins |-> <<>>],
              bin_sizes |-> [b \in 1..NumBins |-> 0],
              tracking |-> [dp_worker |-> <<>>, two_group_worker |-> <<>>,
                            regular_workers |-> <<>>, difficult_bucket |-> <<>>]]

\* assign_buckets: one pass of "for rec in records"
GroupRecord ==
    /\ tc.pc = "group"
    /\ LET rec == tc.records[tc.i]
           last == tc.i = Len(tc.records)
       IN  tc' = [tc EXCEPT
                    !.buckets = BucketAppend(@, create_bucket_key(rec), rec.index),
                    !.i = IF last THEN 1 ELSE @ + 1,
                    !.pc = IF last THEN "categorize" ELSE @]

\* assign_buckets: one pass of "for key, indices in buckets.items()"
CategorizeBucket ==
    /\ tc.pc = "categorize"
    /\ LET b == tc.buckets[tc.i]
           cat == BucketCategory(tc.records, b.indices)
           last == tc.i = Len(tc.buckets)
       IN  tc' = [tc EXCEPT
                    !.difficult_bucket_indices =
                        IF cat = "difficult" THEN Sorted(b.indices) ELSE @,
                    !.dp_buckets = IF cat = "dp" THEN Append(@, b) ELSE @,
                    !.two_group_buckets = IF cat = "two_group" THEN Append(@, b) ELSE @,
                    !.regular_buckets = IF cat = "regular" THEN Append(@, b) ELSE @,
                    !.i = IF last THEN 1 ELSE @ + 1,
                    !.pc = IF last THEN "sort" ELSE @]

\* greedy_bin_pack: build and sort bucket_items
SortBucketItems ==
    /\ tc.pc = "sort"
    /\ tc' = [tc EXCEPT
                !.bucket_items = SortBySizeDesc(tc.regular_buckets),
                !.i = 1,
                !.pc = IF tc.regular_buckets = <<>> THEN "tracking" ELSE "pack"]

\* greedy_bin_pack: one pass of "for key, indices, size in bucket_items"
PackBucket ==
    /\ tc.pc = "pack"
    /\ LET b == tc.bucket_items[tc.i]
           min_idx == IndexOf(tc.bin_sizes, Min(tc.bin_sizes))
           last == tc.i = Len(tc.bucket_items)
       IN  tc' = [tc EXCEPT
                    !.bins[min_idx] = Append(@, b),
                    !.bin_sizes[min_idx] = @ + Len(b.indices),
                    !.i = IF last THEN 1 ELSE @ + 1,
                    !.pc = IF last THEN "tracking" ELSE @]

\* main: the tracking dictionary written to tracking.json
BuildTracking ==
    /\ tc.pc = "tracking"
    /\ tc' = [tc EXCEPT
                !.tracking =
                    [dp_worker |-> BucketIndices(tc.dp_buckets),
                     two_group_worker |-> BucketIndices(tc.two_group_buckets),
                     regular_workers |->
                        [w \in 1..NumBins |-> BucketIndices(tc.bins[w])],
                     difficult_bucket |-> tc.difficult_bucket_indices],
                !.pc = "done"]

NextTC ==
    \/ GroupRecord /\ Frame("tc")
    \/ CategorizeBucket /\ Frame("tc")
    \/ SortBucketItems /\ Frame("tc")
    \/ PackBucket /\ Frame("tc")
    \/ BuildTracking /\ Frame("tc")

SpecTC == TCInit /\ [][NextTC]_vars

\* how many times index idx is handed out over all workers and the difficult bucket
TimesAssigned(idx) ==
    Count(tc.tracking.dp_worker, idx)
    + Count(tc.tracking.two_group_worker, idx)
    + Count(Flatten(tc.tracking.regular_workers), idx)
    + Count(tc.tracking.difficult_bucket, idx)

\* C1: once the split is written, every index 1..N is held by exactly one of
\* the DP worker, the 2-group worker, the regular workers and the difficult
\* bucket: none is missing and none is handed out twice.
C1_EveryIndexAssignedOnce ==
    tc.pc = "done" => \A idx \in 1..NumRecords : TimesAssigned(idx) = 1

\* a finished split in which the difficult bucket, the DP worker and a regular
\* worker all hold indices
C1_Witness ==
    /\ tc.pc = "done"
    /\ tc.tracking.difficult_bucket # <<>>
    /\ tc.tracking.dp_worker # <<>>
    /\ \E w \in 1..NumBins : tc.tracking.regular_workers[w] # <<>>
(***************************************************************************)
(* phase_a2_compute_leaves.py: main(), run_leaf_worker() and the GAP       *)
(* script run_leaf_worker generates (LeafWorkerMain).                      *)
(*                                                                         *)
(* A label is a sequence of characters.  A result file is the sequence of  *)
(* the items written to it: the header, one record per subgroup, one       *)
(* "# Leaf complete:" line per finished leaf, the closing bracket and the  *)
(* "# Complete:" line.  A file that does not exist is the empty sequence   *)
(* (the script treats both alike).                                         *)
(***************************************************************************)
\* leaf_batch_1.g .. leaf_batch_N.g (count_leaf_batches)
NumLeafWorkers == 2
\* leaves per batch file
MaxLeaves == 2
\* conjugacy classes of subgroups of one leaf (Length(reps))
SubgroupsPerLeaf == 1
\* how often the script is invoked
MaxInvocations == 2

LeafWorkers == 1..NumLeafWorkers

\* labels as phase_a1 hands them on ('label := "([^"]+)"'): identifier
\* characters, other punctuation, blanks
LeafLabels ==
    { <<"a", "_", "b">>, <<"a", "-", "b">>, <<"a", " ", "b">>, <<"c">> }

\* Python str.isalnum() on the ASCII characters
PyAlnum ==
    {"0","1","2","3","4","5","6","7","8","9",
     "a","b","c","d","e","f","g","h","i","j","k","l","m",
     "n","o","p","q","r","s","t","u","v","w","x","y","z",
     "A","B","C","D","E","F","G","H","I","J","K","L","M",
     "N","O","P","Q","R","S","T","U","V","W","X","Y","Z"}

\* the string SanitizeLabel (GAP) tests membership in
GapIdentChars == PyAlnum \cup {"_"}

sanitize_label_py(s) ==
    <<"L">> \o [k \in 1..Len(s) |->
                  IF s[k] \in PyAlnum \/ s[k] = "_" THEN s[k] ELSE "_"]

SanitizeLabel(s) ==
    <<"L">> \o [k \in 1..Len(s) |-> IF s[k] \in GapIdentChars THEN s[k] ELSE "_"]

\* what '([^\s(]+)' captures of the text "<label> (<n> subgroups ...": the
\* longest prefix of the label free of white space and "("
LeafCompleteCapture(label) ==
    LET stop == {k \in 1..Len(label) : label[k] \in {" ", "("}}
        n == IF stop = {} THEN Len(label)
             ELSE (CHOOSE k \in stop : \A l \in stop : k <= l) - 1
    IN  SubSeq(label, 1, n)

Item(t, label, n) == [t |-> t, label |-> label, n |-> n]

get_completed_leaves(content) ==
    { LeafCompleteCapture(content[k].label) :
        k \in {l \in DOMAIN content : /\ content[l].t = "leaf_complete"
                                      /\ LeafCompleteCapture(content[l].label) # <<>>} }

\* "# Complete:" in content
HasCompleteMarker(content) == \E k \in DOMAIN content : content[k].t = "complete"

\* the labels written in "# Leaf complete:" lines of the file
CheckpointedLabels(content) ==
    { content[k].label : k \in {l \in DOMAIN content : content[l].t = "leaf_complete"} }

\* main, lines 365-375: the workers left in worker_ids
WorkersToRun(files) ==
    { w \in LeafWorkers :
        \/ get_completed_leaves(files[w]) # {}
        \/ ~HasCompleteMarker(files[w]) }

RECURSIVE SeqsOfDistinct(_, _)
SeqsOfDistinct(S, n) ==
    IF n = 0 THEN {<<>>}
    ELSE LET shorter == SeqsOfDistinct(S, n - 1)
         IN  shorter \cup { Append(q, x) : q \in shorter, x \in S }

\* the batches: lists of leaves with unique labels
LeafBatches ==
    { q \in SeqsOfDistinct(LeafLabels, MaxLeaves) :
        /\ q # <<>>
        /\ \A k, l \in DOMAIN q : k # l => q[k] # q[l] }

NoProcess ==
    [st |-> "none", completed |-> {}, resume_mode |-> FALSE, gpc |-> "none",
     i |-> 0, j |-> 0, totalCount |-> 0, skipped |-> 0, returncode |-> 0,
     success |-> FALSE, recorded |-> {}, computed |-> {}]

LeafInit ==
    /\ Idle("leaf")
    /\ \E batch \in [LeafWorkers -> LeafBatches] :
         leaf = [pc |-> "shell",
                 batch |-> batch,
                 result_file |-> [w \in LeafWorkers |-> <<>>],
                 invocations |-> 0,
                 worker_ids |-> {},
                 had_marker |-> [w \in LeafWorkers |-> FALSE],
                 proc |-> [w \in LeafWorkers |-> NoProcess],
                 exit_code |-> 0]

\* main up to "Running workers": python phase_a2_compute_leaves.py
LeafMainStart ==
    /\ leaf.pc = "shell"
    /\ leaf.invocations < MaxInvocations
    /\ LET ids == WorkersToRun(leaf.result_file)
       IN  leaf' = [leaf EXCEPT
                      !.invocations = @ + 1,
                      !.worker_ids = ids,
                      !.had_marker = [w \in LeafWorkers |->
                                        HasCompleteMarker(leaf.result_file[w])],
                      !.proc = [w \in LeafWorkers |->
                                  IF w \in ids THEN [NoProcess EXCEPT !.st = "queued"]
                                  ELSE NoProcess],
                      !.exit_code = 0,
                      !.pc = IF ids = {} THEN "shell" ELSE "running"]

\* run_leaf_worker up to Popen: read the checkpoints, write the GAP script
RunLeafWorker(w) ==
    /\ leaf.pc = "running"
    /\ leaf.proc[w].st = "queued"
    /\ LET completed == get_completed_leaves(leaf.result_file[w])
       IN  leaf' = [leaf EXCEPT
                      !.proc[w] = [@ EXCEPT
                          !.st = "gap",
                          !.completed = completed,
                          !.resume_mode = completed # {},
                          !.gpc = "start",
                          !.recorded = CheckpointedLabels(leaf.result_file[w])]]

\* the set of fields of completedLeaves the generated script binds
CompletedLeavesRec(p) == { sanitize_label_py(label) : label \in p.completed }

\* LeafWorkerMain: "if not resumeMode then PrintTo(outputFile, ...)"
GapStart(w) ==
    /\ leaf.proc[w].st = "gap"
    /\ leaf.proc[w].gpc = "start"
    /\ leaf' = [leaf EXCEPT
                  !.result_file[w] =
                      IF leaf.proc[w].resume_mode THEN @
                      ELSE <<Item("header", <<>>, 0)>>,
                  !.proc[w] = [@ EXCEPT !.gpc = "loop", !.i = 1, !.j = 1]]

\* LeafWorkerMain: a leaf found in completedLeaves is passed over
GapSkipLeaf(w) ==
    LET p == leaf.proc[w] IN
    /\ p.st = "gap" /\ p.gpc = "loop"
    /\ p.i <= Len(leaf.batch[w])
    /\ SanitizeLabel(leaf.batch[w][p.i]) \in CompletedLeavesRec(p)
    /\ leaf' = [leaf EXCEPT
                  !.proc[w] = [@ EXCEPT !.skipped = @ + 1, !.i = @ + 1]]

\* LeafWorkerMain: one representative of the current leaf is saved
GapSaveSubgroup(w) ==
    LET p == leaf.proc[w] IN
    /\ p.st = "gap" /\ p.gpc = "loop"
    /\ p.i <= Len(leaf.batch[w])
    /\ SanitizeLabel(leaf.batch[w][p.i]) \notin CompletedLeavesRec(p)
    /\ p.j <= SubgroupsPerLeaf
    /\ leaf' = [leaf EXCEPT
                  !.result_file[w] = Append(@, Item("rec", leaf.batch[w][p.i], p.j)),
                  !.proc[w] = [@ EXCEPT
                      !.totalCount = @ + 1,
                      !.j = @ + 1,
                      !.computed = @ \cup {leaf.batch[w][p.i]}]]

\* LeafWorkerMain: the checkpoint marker behind the leaf's records
GapLeafComplete(w) ==
    LET p == leaf.proc[w] IN
    /\ p.st = "gap" /\ p.gpc = "loop"
    /\ p.i <= Len(leaf.batch[w])
    /\ SanitizeLabel(leaf.batch[w][p.i]) \notin CompletedLeavesRec(p)
    /\ p.j > SubgroupsPerLeaf
    /\ leaf' = [leaf EXCEPT
                  !.result_file[w] =
                      Append(@, Item("leaf_complete", leaf.batch[w][p.i], SubgroupsPerLeaf)),
                  !.proc[w] = [@ EXCEPT !.i = @ + 1, !.j = 1]]

\* LeafWorkerMain: the closing bracket and the "# Complete:" line; GAP quits
GapFinish(w) ==
    LET p == leaf.proc[w] IN
    /\ p.st = "gap" /\ p.gpc = "loop"
    /\ p.i > Len(leaf.batch[w])
    /\ leaf' = [leaf EXCEPT
                  !.result_file[w] =
                      @ \o <<Item("close", <<>>, 0), Item("complete", <<>>, p.totalCount)>>,
                  !.proc[w] = [@ EXCEPT !.st = "exited", !.gpc = "quit", !.returncode = 0]]

\* the GAP process dies (killed, out of memory, machine restarted) where it is
GapDies(w) ==
    /\ leaf.proc[w].st = "gap"
    /\ leaf' = [leaf EXCEPT
                  !.proc[w] = [@ EXCEPT !.st = "exited", !.gpc = "dead", !.returncode = 1]]

\* run_leaf_worker, lines 322-333: the success check on the result file
LeafWorkerReturns(w) ==
    /\ leaf.proc[w].st = "exited"
    /\ leaf' = [leaf EXCEPT
                  !.proc[w] = [@ EXCEPT
                      !.st = "returned",
                      !.success = HasCompleteMarker(leaf.result_file[w])]]

\* main, lines 404-425: the summary and the exit code
LeafMainFinish ==
    /\ leaf.pc = "running"
    /\ \A w \in leaf.worker_ids : leaf.proc[w].st = "returned"
    /\ leaf' = [leaf EXCEPT
                  !.exit_code =
                      IF \E w \in leaf.worker_ids : ~leaf.proc[w].success THEN 1 ELSE 0,
                  !.pc = "shell"]

NextLeaf ==
    \/ LeafMainStart /\ Frame("leaf")
    \/ \E w \in LeafWorkers : RunLeafWorker(w) /\ Frame("leaf")
    \/ \E w \in LeafWorkers : GapStart(w) /\ Frame("leaf")
    \/ \E w \in LeafWorkers : GapSkipLeaf(w) /\ Frame("leaf")
    \/ \E w \in LeafWorkers : GapSaveSubgroup(w) /\ Frame("leaf")
    \/ \E w \in LeafWorkers : GapLeafComplete(w) /\ Frame("leaf")
    \/ \E w \in LeafWorkers : GapFinish(w) /\ Frame("leaf")
    \/ \E w \in LeafWorkers : GapDies(w) /\ Frame("leaf")
    \/ \E w \in LeafWorkers : LeafWorkerReturns(w) /\ Frame("leaf")
    \/ LeafMainFinish /\ Frame("leaf")

SpecLeaf == LeafInit /\ [][NextLeaf]_vars

\* C2 (phase_a2_compute_leaves.py): a worker that main launches had no
\* "# Complete:" marker in its result file when the script was invoked.
C2_CompleteWorkerNotRerun ==
    \A w \in LeafWorkers :
        (leaf.pc = "running" /\ w \in leaf.worker_ids) => ~leaf.had_marker[w]

\* C3: a leaf whose label stood in a "# Leaf complete:" line of the result
\* file when the worker was started is not computed again by that run.
C3_CheckpointedLeafSkipped ==
    \A w \in LeafWorkers : leaf.proc[w].computed \cap leaf.proc[w].recorded = {}

\* C20 for the leaf workers: a worker returns success only if the GAP process
\* of this run reached the "# Complete:" line
LeafSuccessOnlyFromOwnMarker ==
    \A w \in LeafWorkers :
        (leaf.proc[w].st = "returned" /\ leaf.proc[w].success)
            => leaf.proc[w].gpc = "quit"

\* how often the record of subgroup n of the leaf stands in the file
TimesSaved(content, label, n) == Count(content, Item("rec", label, n))

\* C19: whatever runs were interrupted and resumed, a result file that is
\* complete holds the record of every subgroup of every leaf of the batch
\* exactly once.
C19_EachLeafRecordOnce ==
    \A w \in LeafWorkers :
        HasCompleteMarker(leaf.result_file[w]) =>
            \A k \in DOMAIN leaf.batch[w] : \A n \in 1..SubgroupsPerLeaf :
                TimesSaved(leaf.result_file[w], leaf.batch[w][k], n) = 1

\* every leaf label of the batch is free of blanks and no two of them are
\* sanitized to the same identifier
PlainLabels(w) ==
    \A k, l \in DOMAIN leaf.batch[w] :
        /\ LeafCompleteCapture(leaf.batch[w][k]) = leaf.batch[w][k]
        /\ k # l => SanitizeLabel(leaf.batch[w][k]) # SanitizeLabel(leaf.batch[w][l])

\* the same for the batches with plain labels only: what is left is the run
\* that died between a leaf's records and its "# Leaf complete:" line
EachLeafRecordOnceForPlainLabels ==
    \A w \in LeafWorkers :
        (HasCompleteMarker(leaf.result_file[w]) /\ PlainLabels(w)) =>
            \A k \in DOMAIN leaf.batch[w] : \A n \in 1..SubgroupsPerLeaf :
                TimesSaved(leaf.result_file[w], leaf.batch[w][k], n) = 1
(***************************************************************************)
(* dedup_parallel.py (Phase B-1, B-2, B-3 for S14) and                     *)
(* rerun_phase_b2b3_s15.py (Phase B-2 and B-3 for S15, Phase B-1 run       *)
(* beforehand by another script).                                          *)
(*                                                                         *)
(* A worker's result file worker_results_<w>.g is modelled by whether it   *)
(* holds the "# Complete:" line; the file survives from run to run.        *)
(***************************************************************************)
\* NUM_WORKERS (6 in dedup_parallel.py, 8 in rerun_phase_b2b3_s15.py)
NumDedupWorkers == 2

DedupWorkers == 1..NumDedupWorkers
DedupScripts == {"dedup_parallel", "rerun_phase_b2b3_s15"}

\* wrote_marker: the GAP process of this run wrote the "# Complete:" line
NoDedupWorker == [st |-> "none", success |-> FALSE, wrote_marker |-> FALSE]

DedupInit ==
    /\ Idle("dedup")
    /\ \E script \in DedupScripts, marker \in [DedupWorkers -> BOOLEAN] :
         dedup = [pc |-> "start",
                  script |-> script,
                  marker |-> marker,
                  completed_workers |-> {},
                  workers_to_run |-> {},
                  b1 |-> "notrun",
                  worker |-> [w \in DedupWorkers |-> NoDedupWorker],
                  b3 |-> "notrun",
                  exit_code |-> -1]

\* dedup_parallel.main, lines 576-602: the check of the inputs, then Phase B-1
\* is started unless the user declines to go on without them
DedupMainStart ==
    /\ dedup.pc = "start"
    /\ dedup.script = "dedup_parallel"
    /\ \E missing \in BOOLEAN, answer_yes \in BOOLEAN :
         IF missing /\ ~answer_yes
         THEN dedup' = [dedup EXCEPT !.pc = "exit", !.exit_code = 1]
         ELSE dedup' = [dedup EXCEPT !.pc = "b1", !.b1 = "running"]

\* no entry of results is a failure (a mutant)
FailedNone(worker, ids) == {}

\* [r for r in results if not r.get("success")]
Failed(worker, ids) == {w \in ids : ~worker[w].success}

\* run_phase_b1 returns proc.returncode == 0 (an exception of Popen ends the
\* script with a traceback, exit code 1); main goes on to Phase B-2 or stops
PhaseB1Ends ==
    /\ dedup.pc = "b1"
    /\ \E outcome \in {"rc0", "rc_nonzero", "raises"} :
         IF outcome = "rc0"
         THEN dedup' = [dedup EXCEPT
                          !.b1 = "ok",
                          !.pc = "b2",
                          !.workers_to_run = DedupWorkers,
                          !.worker = [w \in DedupWorkers |->
                                        [NoDedupWorker EXCEPT !.st = "queued"]]]
         ELSE dedup' = [dedup EXCEPT !.b1 = "fail", !.pc = "exit", !.exit_code = 1]

\* rerun_phase_b2b3_s15.main, lines 404-441: the Phase B-1 outputs must exist;
\* workers whose result file holds "# Complete:" are left out
RerunMainStart ==
    /\ dedup.pc = "start"
    /\ dedup.script = "rerun_phase_b2b3_s15"
    /\ \E b1_outputs_exist \in BOOLEAN :
         IF ~b1_outputs_exist
         THEN dedup' = [dedup EXCEPT !.pc = "exit", !.exit_code = 1]
         ELSE LET completed == {w \in DedupWorkers : dedup.marker[w]}
                  to_run == DedupWorkers \ completed
              IN  dedup' = [dedup EXCEPT
                              !.completed_workers = completed,
                              !.workers_to_run = to_run,
                              !.worker = [w \in DedupWorkers |->
                                            IF w \in to_run
                                            THEN [NoDedupWorker EXCEPT !.st = "queued"]
                                            ELSE NoDedupWorker],
                              !.b3 = IF to_run = {} THEN "running" ELSE @,
                              !.pc = IF to_run = {} THEN "b3" ELSE "b2"]

\* run_dedup_worker: Popen of the GAP worker (an exception is caught and the
\* worker returns without success)
DedupWorkerStarts(w) ==
    /\ dedup.pc = "b2"
    /\ dedup.worker[w].st = "queued"
    /\ \E spawned \in BOOLEAN :
         dedup' = [dedup EXCEPT
                     !.worker[w].st = IF spawned THEN "gap_started" ELSE "returned"]

\* DedupWorkerMain: PrintTo(outputFile, ...) starts the result file afresh
DedupGapPrintTo(w) ==
    /\ dedup.worker[w].st = "gap_started"
    /\ dedup' = [dedup EXCEPT !.marker[w] = FALSE, !.worker[w].st = "gap_writing"]

\* DedupWorkerMain: the "# Complete:" line, then QUIT
DedupGapCompletes(w) ==
    /\ dedup.worker[w].st = "gap_writing"
    /\ dedup' = [dedup EXCEPT
                   !.marker[w] = TRUE,
                   !.worker[w] = [@ EXCEPT !.st = "exited", !.wrote_marker = TRUE]]

\* the GAP process ends early (error in the script, killed)
DedupGapDies(w) ==
    /\ dedup.worker[w].st \in {"gap_started", "gap_writing"}
    /\ dedup' = [dedup EXCEPT !.worker[w].st = "exited"]

\* run_dedup_worker: "# Complete:" in content decides success
DedupWorkerReturns(w) ==
    /\ dedup.worker[w].st = "exited"
    /\ dedup' = [dedup EXCEPT
                   !.worker[w] = [@ EXCEPT !.st = "returned",
                                           !.success = dedup.marker[w]]]

\* main: all futures are in; a failed worker stops the run, else Phase B-3
PhaseB2Ends ==
    /\ dedup.pc = "b2"
    /\ \A w \in dedup.workers_to_run : dedup.worker[w].st = "returned"
    /\ IF Failed(dedup.worker, dedup.workers_to_run) # {}
       THEN dedup' = [dedup EXCEPT !.pc = "exit", !.exit_code = 1]
       ELSE dedup' = [dedup EXCEPT !.pc = "b3", !.b3 = "running"]

\* run_phase_b3 returns proc.returncode == 0; main returns 0 or 1
PhaseB3Ends ==
    /\ dedup.pc = "b3"
    /\ \E rc0 \in BOOLEAN :
         dedup' = [dedup EXCEPT
                     !.b3 = IF rc0 THEN "ok" ELSE "fail",
                     !.pc = "exit",
                     !.exit_code = IF rc0 THEN 0 ELSE 1]

NextDedup ==
    \/ DedupMainStart /\ Frame("dedup")
    \/ PhaseB1Ends /\ Frame("dedup")
    \/ RerunMainStart /\ Frame("dedup")
    \/ \E w \in DedupWorkers : DedupWorkerStarts(w) /\ Frame("dedup")
    \/ \E w \in DedupWorkers : DedupGapPrintTo(w) /\ Frame("dedup")
    \/ \E w \in DedupWorkers : DedupGapCompletes(w) /\ Frame("dedup")
    \/ \E w \in DedupWorkers : DedupGapDies(w) /\ Frame("dedup")
    \/ \E w \in DedupWorkers : DedupWorkerReturns(w) /\ Frame("dedup")
    \/ PhaseB2Ends /\ Frame("dedup")
    \/ PhaseB3Ends /\ Frame("dedup")

SpecDedup == DedupInit /\ [][NextDedup]_vars

\* a worker of this run has been started
SomeWorkerStarted == \E w \in DedupWorkers : dedup.worker[w].st # "none"

\* a worker whose success counts: it returned success in this run, or (in the
\* re-run script) it was left out because its result file was complete
ReportedSuccess(w) ==
    \/ dedup.worker[w].st = "returned" /\ dedup.worker[w].success
    \/ w \in dedup.completed_workers

RerunSkipsCompleteWorkers ==
    dedup.script = "rerun_phase_b2b3_s15" =>
        \A w \in dedup.completed_workers : dedup.worker[w].st = "none"

\* C20: a dedup worker is reported successful only if the GAP process this
\* run started for it wrote the "# Complete:" line; a line left by an earlier
\* run does not make a run that died a success.
C20_SuccessOnlyFromOwnMarker ==
    \A w \in DedupWorkers :
        (dedup.worker[w].st = "returned" /\ dedup.worker[w].success)
            => dedup.worker[w].wrote_marker

\* the same for the re-run script alone, which starts no worker whose result
\* file holds the line
RerunSuccessOnlyFromOwnMarker ==
    dedup.script = "rerun_phase_b2b3_s15" => C20_SuccessOnlyFromOwnMarker

(***************************************************************************)
(* s16_processing/build_s15_iso_map.py                                     *)
(*                                                                         *)
(* combined_proof.g is a sequence of lines, each with a "duplicate := d"   *)
(* and a "representative := r" field.  A dict from indices is a function   *)
(* on 1..MaxIdx whose value 0 stands for "no such key".                    *)
(***************************************************************************)
MaxIdx == 3
MaxLines == 3

Indices == 1..MaxIdx
ProofLines == UNION { [1..n -> [dup : Indices, rep : Indices]] : n \in 0..MaxLines }
EmptyDict == [x \in Indices |-> 0]
Keys(dict) == {x \in Indices : dict[x] # 0}

\* the parsing loop of main: "duplicate" sets current_dup, "representative"
\* with a current_dup appends a pair and clears current_dup
RECURSIVE ParsePairs(_, _, _)
ParsePairs(lines, current_dup, pairs) ==
    IF lines = <<>> THEN pairs
    ELSE LET line == Head(lines)
             cur == IF line.dup # 0 THEN line.dup ELSE current_dup
         IN  IF line.rep # 0 /\ cur # 0
             THEN ParsePairs(Tail(lines), 0, Append(pairs, <<cur, line.rep>>))
             ELSE ParsePairs(Tail(lines), cur, pairs)

RECURSIVE RootOf(_, _)
RootOf(parent, x) == IF parent[x] = x THEN x ELSE RootOf(parent, parent[x])

RECURSIVE PathTo(_, _)
PathTo(parent, x) == IF parent[x] = x THEN {} ELSE {x} \cup PathTo(parent, parent[x])

\* UnionFind.find: enters x if absent, then sets the parent of every index
\* on the way up to the root
find(parent, x) ==
    LET p0 == IF parent[x] = 0 THEN [parent EXCEPT ![x] = x] ELSE parent
        root == RootOf(p0, x)
        path == PathTo(p0, x)
    IN  [parent |-> [y \in Indices |-> IF y \in path THEN root ELSE p0[y]],
         root |-> root]

\* a union that hangs a itself, not its root, under the root of b (a mutant)
unionNoFind(parent, a, b) ==
    LET fa == find(parent, a)
        fb == find(fa.parent, b)
    IN  IF fa.root # fb.root THEN [fb.parent EXCEPT ![a] = fb.root]
        ELSE fb.parent

\* a union that makes the root of a the representative (a mutant)
unionReversed(parent, a, b) ==
    LET fa == find(parent, a)
        fb == find(fa.parent, b)
    IN  IF fa.root # fb.root THEN [fb.parent EXCEPT ![fb.root] = fa.root]
        ELSE fb.parent

\* UnionFind.union
union(parent, a, b) ==
    LET fa == find(parent, a)
        fb == find(fa.parent, b)
    IN  IF fa.root # fb.root THEN [fb.parent EXCEPT ![fa.root] = fb.root]
        ELSE fb.parent

IsoInit ==
    /\ Idle("iso")
    /\ \E exists \in BOOLEAN, lines \in ProofLines :
         /\ ~exists => lines = <<>>
         /\ iso = [pc |-> "start", exists |-> exists, lines |-> lines,
                   pairs |-> <<>>, next |-> 1, parent |-> EmptyDict,
                   all_indices |-> {}, todo |-> {}, iso_map |-> EmptyDict,
                   output |-> <<>>, exit_code |-> -1]

\* main: combined_proof.g is missing
IsoMissingInput ==
    /\ iso.pc = "start" /\ ~iso.exists
    /\ iso' = [iso EXCEPT !.pc = "exit", !.exit_code = 1]

\* main: the pairs are read
IsoParse ==
    /\ iso.pc = "start" /\ iso.exists
    /\ iso' = [iso EXCEPT !.pairs = ParsePairs(iso.lines, 0, <<>>), !.pc = "union"]

\* main: uf.union(dup, rep) for the next pair
IsoUnion ==
    /\ iso.pc = "union" /\ iso.next <= Len(iso.pairs)
    /\ iso' = [iso EXCEPT
                 !.parent = union(@, iso.pairs[iso.next][1], iso.pairs[iso.next][2]),
                 !.next = @ + 1]

\* main: all_indices is filled
IsoCollect ==
    /\ iso.pc = "union" /\ iso.next > Len(iso.pairs)
    /\ LET all == {iso.pairs[i][1] : i \in 1..Len(iso.pairs)}
                  \cup {iso.pairs[i][2] : i \in 1..Len(iso.pairs)}
       IN  iso' = [iso EXCEPT !.all_indices = all, !.todo = all, !.pc = "map"]

\* main: one round of "for idx in all_indices" (a set: any order)
IsoMapIndex ==
    /\ iso.pc = "map"
    /\ \E idx \in iso.todo :
         LET f == find(iso.parent, idx)
         IN  iso' = [iso EXCEPT
                       !.parent = f.parent,
                       !.iso_map = IF f.root # idx THEN [@ EXCEPT ![idx] = f.root] ELSE @,
                       !.todo = @ \ {idx}]

\* sorted(iso_map.items())
RECURSIVE SortedEntries(_, _)
SortedEntries(dict, from) ==
    IF from > MaxIdx THEN <<>>
    ELSE IF dict[from] # 0
         THEN <<(<<from, dict[from]>>)>> \o SortedEntries(dict, from + 1)
         ELSE SortedEntries(dict, from + 1)

\* main: S15_ISO_MAP is written
IsoWrite ==
    /\ iso.pc = "map" /\ iso.todo = {}
    /\ iso' = [iso EXCEPT !.output = SortedEntries(iso.iso_map, 1),
                          !.pc = "exit", !.exit_code = 0]

NextIso ==
    \/ IsoMissingInput /\ Frame("iso")
    \/ IsoParse /\ Frame("iso")
    \/ IsoUnion /\ Frame("iso")
    \/ IsoCollect /\ Frame("iso")
    \/ IsoMapIndex /\ Frame("iso")
    \/ IsoWrite /\ Frame("iso")

SpecIso == IsoInit /\ [][NextIso]_vars

\* the indices joined to the members of S by the pairs ps, in either direction
RECURSIVE Reach(_, _)
Reach(ps, S) ==
    LET T == S \cup {ps[i][2] : i \in {j \in 1..Len(ps) : ps[j][1] \in S}}
               \cup {ps[i][1] : i \in {j \in 1..Len(ps) : ps[j][2] \in S}}
    IN  IF T = S THEN S ELSE Reach(ps, T)

\* the equivalence class of x under the pairs
ClassOf(x) == Reach(iso.pairs, {x})

Duplicates == {iso.pairs[i][1] : i \in 1..Len(iso.pairs)}
Representatives == {iso.pairs[i][2] : i \in 1..Len(iso.pairs)}

\* pair i joins two indices that the pairs before it had not joined
JoinsNewly(i) ==
    iso.pairs[i][2] \notin Reach(SubSeq(iso.pairs, 1, i - 1), {iso.pairs[i][1]})

IsoDone == iso.pc = "exit" /\ iso.exit_code = 0

\* C4 (as amended): in the written map every equivalence class has exactly
\* one member that is not a key, its canonical representative, and every
\* other member of the class is a key whose value is that representative;
\* the duplicate of every pair that joins two indices not joined by the
\* earlier pairs is such a key.
C4_ClassResolvedToOneCanonical ==
    IsoDone =>
        /\ Keys(iso.iso_map) \subseteq iso.all_indices
        /\ \A x \in iso.all_indices :
             LET canon == ClassOf(x) \ Keys(iso.iso_map)
             IN  /\ Cardinality(canon) = 1
                 /\ \A y \in ClassOf(x) \cap Keys(iso.iso_map) : iso.iso_map[y] \in canon
        /\ \A i \in 1..Len(iso.pairs) :
             JoinsNewly(i) =>
                 /\ iso.pairs[i][1] \in Keys(iso.iso_map)
                 /\ iso.iso_map[iso.pairs[i][1]] \notin Keys(iso.iso_map)

\* a chain of pairs 1 -> 2 -> 3 resolved to the canonical representative 3
C4_Witness ==
    /\ IsoDone
    /\ Len(iso.pairs) >= 2
    /\ \A i \in 1..Len(iso.pairs) : JoinsNewly(i)
    /\ \E d \in Duplicates :
         /\ iso.iso_map[d] # 0
         /\ \A i \in 1..Len(iso.pairs) : iso.pairs[i] # <<d, iso.iso_map[d]>>

\* C4 (as first stated): every duplicate is a key whose value is the canonical
\* representative of its class, which is not a key
C4_EveryDuplicateIsKey ==
    IsoDone =>
        \A d \in Duplicates :
            /\ d \in Keys(iso.iso_map)
            /\ iso.iso_map[d] \in ClassOf(d) \ Keys(iso.iso_map)

\* no index is the duplicate of two pairs with different representatives
UniqueDuplicates ==
    \A i, j \in 1..Len(iso.pairs) :
        iso.pairs[i][1] = iso.pairs[j][1] => iso.pairs[i][2] = iso.pairs[j][2]

MaxGroupIdx == 3
MaxProofs == 2

GroupIndices == 1..MaxGroupIdx
ProofRecords ==
    UNION { [1..n -> [dup : GroupIndices, rep : GroupIndices]] : n \in 0..MaxProofs }

\* Counter(dup_indices)[k]
dup_counter(dup_indices, k) == Count(dup_indices, k)

\* a check that lets an index be the duplicate of two proofs (a mutant)
redundantFromThree(dup_indices) ==
    {k \in Range(dup_indices) : dup_counter(dup_indices, k) > 2}

\* {k: v for k, v in dup_counter.items() if v > 1}, its keys
redundant(dup_indices) ==
    {k \in Range(dup_indices) : dup_counter(dup_indices, k) > 1}

CovInit ==
    /\ Idle("cov")
    /\ \E large \in SUBSET GroupIndices, content \in ProofRecords :
         cov = [pc |-> "parse_large", inv_content |-> large, proof_content |-> content,
                large_indices |-> {}, dup_indices |-> <<>>, dup_to_rep |-> <<>>,
                type_reps |-> {}, duplicates_in_proofs |-> {}, uncovered |-> {},
                bad_reps |-> {}, result |-> "none"]

\* lines 19-21
CovParseLarge ==
    /\ cov.pc = "parse_large"
    /\ cov' = [cov EXCEPT !.large_indices = cov.inv_content, !.pc = "parse_proofs"]

\* lines 29-38: the next match of the pattern
CovParseProof ==
    /\ cov.pc = "parse_proofs"
    /\ Len(cov.dup_indices) < Len(cov.proof_content)
    /\ LET m == cov.proof_content[Len(cov.dup_indices) + 1]
       IN  cov' = [cov EXCEPT
                     !.dup_indices = Append(@, m.dup),
                     !.dup_to_rep = Append(SelectSeq(@, LAMBDA e : e[1] # m.dup),
                                           <<m.dup, m.rep>>)]

\* lines 55-77: the large indices are classified, the representatives looked at
CovClassify ==
    /\ cov.pc = "parse_proofs"
    /\ Len(cov.dup_indices) = Len(cov.proof_content)
    /\ LET dup_set == Range(cov.dup_indices)
           type_reps == cov.large_indices \ dup_set
           duplicates_in_proofs == cov.large_indices \cap dup_set
       IN  cov' = [cov EXCEPT
                     !.type_reps = type_reps,
                     !.duplicates_in_proofs = duplicates_in_proofs,
                     !.uncovered = (cov.large_indices \ type_reps) \ duplicates_in_proofs,
                     !.bad_reps = {e \in Range(cov.dup_to_rep) :
                                     e[1] \in cov.large_indices
                                     /\ e[2] \notin cov.large_indices},
                     !.pc = "verdict"]

\* lines 87-103
CovVerdict ==
    /\ cov.pc = "verdict"
    /\ LET total == Cardinality(cov.type_reps) + Cardinality(cov.duplicates_in_proofs)
       IN  cov' = [cov EXCEPT
                     !.result = IF /\ Cardinality(cov.uncovered) = 0
                                   /\ total = Cardinality(cov.large_indices)
                                   /\ redundant(cov.dup_indices) = {}
                                THEN "PASS" ELSE "FAIL",
                     !.pc = "exit"]

NextCov ==
    \/ CovParseLarge /\ Frame("cov")
    \/ CovParseProof /\ Frame("cov")
    \/ CovClassify /\ Frame("cov")
    \/ CovVerdict /\ Frame("cov")

SpecCov == CovInit /\ [][NextCov]_vars

\* the number of proofs of the file that list idx as their duplicate
TimesDuplicate(idx) ==
    Cardinality({i \in 1..Len(cov.proof_content) : cov.proof_content[i].dup = idx})

\* every large index is a type representative or the duplicate of one proof
EveryLargeCovered == \A idx \in cov.inv_content : TimesDuplicate(idx) <= 1

MaxDup == 2
MaxCandidates == 2
MaxRuns == 4

ProofDups == 1..MaxDup
ProofRecs == [dup : ProofDups, valid : BOOLEAN]
NoStaging == [exists |-> FALSE, records |-> <<>>]
NoVerifyOutput == [exists |-> FALSE, summary |-> FALSE, checked |-> {}, failed_dups |-> {}]

RECURSIVE SetToAscSeq(_)
SetToAscSeq(S) ==
    IF S = {} THEN <<>>
    ELSE LET m == CHOOSE x \in S : \A y \in S : x <= y
         IN  <<m>> \o SetToAscSeq(S \ {m})

\* the loop over the records of the candidate files: a record is kept when
\* its duplicate is neither in the master nor already kept
RECURSIVE new_proofs(_, _, _)
new_proofs(records, existing_dups, kept) ==
    IF records = <<>> THEN kept
    ELSE LET r == Head(records)
         IN  IF r.dup \in existing_dups \/ \E k \in kept : k.dup = r.dup
             THEN new_proofs(Tail(records), existing_dups, kept)
             ELSE new_proofs(Tail(records), existing_dups, kept \cup {r})

\* the records of new_proofs in the order of sorted(new_proofs.keys())
StagingOf(kept) ==
    LET dups == SetToAscSeq({k.dup : k \in kept})
    IN  [i \in 1..Len(dups) |-> CHOOSE k \in kept : k.dup = dups[i]]

NoAppend == [kept |-> <<>>, checked |-> {}, failed_dups |-> {}]

ProofsInit ==
    /\ Idle("proofs")
    /\ \E master \in SUBSET ProofDups, closed \in BOOLEAN, n \in 0..MaxCandidates :
       \E candidates \in [1..n -> ProofRecs] :
         proofs = [pc |-> "shell",
                   master |-> SetToAscSeq(master),
                   master_closed |-> closed,
                   candidates |-> candidates,
                   staging |-> NoStaging,
                   verify_output |-> NoVerifyOutput,
                   runs |-> 0,
                   last_run |-> "none",
                   exit_code |-> 0,
                   last_append |-> NoAppend]

\* a worker adds a proof record to a candidate file
CandidateWritten ==
    /\ Len(proofs.candidates) < MaxCandidates
    /\ \E r \in ProofRecs :
         proofs' = [proofs EXCEPT !.candidates = Append(@, r)]

\* phase_extract
phase_extract ==
    /\ proofs.runs < MaxRuns
    /\ LET existing_dups == Range(proofs.master)
           kept == new_proofs(proofs.candidates, existing_dups, {})
       IN  proofs' = [proofs EXCEPT
                        !.staging = IF kept = {} THEN @
                                    ELSE [exists |-> TRUE, records |-> StagingOf(kept)],
                        !.runs = @ + 1,
                        !.last_run = "extract",
                        !.exit_code = 0]

\* launch_verify_new_proofs.py: the output file is opened for writing, GAP
\* runs verify_new_proofs.g on the staging file; the summary lines come last
\* and are missing when GAP stops early
VerifyNewProofs ==
    /\ proofs.runs < MaxRuns
    /\ \E n \in 0..Len(proofs.staging.records) :
         LET checked == {proofs.staging.records[i] : i \in 1..n}
             finished == proofs.staging.exists /\ n = Len(proofs.staging.records)
         IN  proofs' = [proofs EXCEPT
                          !.verify_output = [exists |-> TRUE,
                                             summary |-> finished,
                                             checked |-> checked,
                                             failed_dups |-> {r.dup : r \in
                                                               {c \in checked : ~c.valid}}],
                          !.runs = @ + 1,
                          !.last_run = "verify",
                          !.exit_code = 0]

\* the records of the staging file that phase_append keeps
kept_records(staging, failed_dups) ==
    SelectSeq(staging, LAMBDA r : r.dup \notin failed_dups)

\* phase_append
phase_append ==
    /\ proofs.runs < MaxRuns
    /\ LET refused == \/ ~proofs.verify_output.exists
                      \/ ~proofs.verify_output.summary
                      \/ ~proofs.staging.exists
           kept == IF refused THEN <<>>
                   ELSE kept_records(proofs.staging.records,
                                     proofs.verify_output.failed_dups)
       IN  IF refused \/ (kept # <<>> /\ ~proofs.master_closed)
           THEN proofs' = [proofs EXCEPT !.runs = @ + 1, !.last_run = "append",
                                         !.exit_code = 1, !.last_append = NoAppend]
           ELSE proofs' = [proofs EXCEPT
                             !.master = @ \o [i \in 1..Len(kept) |-> kept[i].dup],
                             !.runs = @ + 1,
                             !.last_run = "append",
                             !.exit_code = 0,
                             !.last_append = [kept |-> kept,
                                              checked |-> proofs.verify_output.checked,
                                              failed_dups |-> proofs.verify_output.failed_dups]]

NextProofs ==
    \/ CandidateWritten /\ Frame("proofs")
    \/ phase_extract /\ Frame("proofs")
    \/ VerifyNewProofs /\ Frame("proofs")
    \/ phase_append /\ Frame("proofs")

SpecProofs == ProofsInit /\ [][NextProofs]_vars

\* C7: every record the last --append added to the master was checked by the
\* verification run whose output it read, and that run did not report it as
\* FAIL.
C7_AppendsOnlyVerified ==
    \A i \in 1..Len(proofs.last_append.kept) :
        /\ proofs.last_append.kept[i] \in proofs.last_append.checked
        /\ proofs.last_append.kept[i].dup \notin proofs.last_append.failed_dups

\* C8: when --extract was the last step run, no record of the staging file has
\* a duplicate index that the master holds, and no duplicate index occurs
\* twice in the staging file.
C8_StagingDeduplicated ==
    proofs.last_run = "extract" =>
        /\ \A i \in 1..Len(proofs.staging.records) :
             proofs.staging.records[i].dup \notin Range(proofs.master)
        /\ \A i, j \in 1..Len(proofs.staging.records) :
             proofs.staging.records[i].dup = proofs.staging.records[j].dup => i = j

\* C21: whatever --extract, verification and --append runs were made, the
\* master proof file holds at most one proof per duplicate index.
C21_MasterOneProofPerDuplicate ==
    \A i, j \in 1..Len(proofs.master) :
        proofs.master[i] = proofs.master[j] => i = j

(***************************************************************************)
(* triple_check/dedupe/launch_tc_dedupe.py                                 *)
(*                                                                         *)
(* validation_result.txt is "absent", or holds a passing or a failing      *)
(* result; it is written by tc_test_validation.g and stays on disk from    *)
(* one invocation of the launcher to the next.                             *)
(***************************************************************************)
\* len(WORKERS), 12 in the script
NumTcWorkers == 3

TcWorkers == 1..NumTcWorkers
ResultFileStates == {"absent", "pass", "fail"}

\* "failCount := 0" in content and "passed := true" in content
ValidationPassed(result_file) == result_file = "pass"

LaunchInit ==
    /\ Idle("launch")
    /\ \E result_file \in ResultFileStates :
         launch = [pc |-> "start",
                   result_file |-> result_file,
                   gap |-> "notrun",
                   status |-> [w \in TcWorkers |-> "none"],
                   exit_code |-> -1]

\* run_validation: the log is opened and GAP is started (an exception of Popen
\* is not caught: the launcher ends with a traceback)
ValidationStarts ==
    /\ launch.pc = "start"
    /\ \E spawned \in BOOLEAN :
         IF spawned
         THEN launch' = [launch EXCEPT !.pc = "validating"]
         ELSE launch' = [launch EXCEPT !.pc = "exit", !.exit_code = 1]

\* tc_test_validation.g runs: it writes a passing or a failing result, or GAP
\* ends before the result file is written
ValidationGapEnds ==
    /\ launch.pc = "validating"
    /\ \E outcome \in {"wrote_pass", "wrote_fail", "ended_early"} :
         launch' = [launch EXCEPT
                      !.gap = outcome,
                      !.result_file = CASE outcome = "wrote_pass" -> "pass"
                                        [] outcome = "wrote_fail" -> "fail"
                                        [] OTHER -> @,
                      !.pc = "check_result"]

\* run_validation reads validation_result.txt; main aborts with exit code 1
\* or starts a thread for every worker
ValidationChecked ==
    /\ launch.pc = "check_result"
    /\ IF ValidationPassed(launch.result_file)
       THEN launch' = [launch EXCEPT
                         !.pc = "workers",
                         !.status = [w \in TcWorkers |-> "running"]]
       ELSE launch' = [launch EXCEPT !.pc = "exit", !.exit_code = 1]

\* launch_worker: GAP is started for the worker, or Popen raises
TcWorkerStarts(w) ==
    /\ launch.pc = "workers"
    /\ launch.status[w] = "running"
    /\ \E spawned \in BOOLEAN :
         launch' = [launch EXCEPT !.status[w] = IF spawned THEN "gap" ELSE "error"]

\* launch_worker: the worker's GAP ends; return code 0 is success
TcWorkerEnds(w) ==
    /\ launch.pc = "workers"
    /\ launch.status[w] = "gap"
    /\ \E rc0 \in BOOLEAN :
         launch' = [launch EXCEPT !.status[w] = IF rc0 THEN "success" ELSE "failed"]

\* main: all threads are joined, the summary is written
LaunchSummary ==
    /\ launch.pc = "workers"
    /\ \A w \in TcWorkers : launch.status[w] \in {"success", "failed", "error"}
    /\ launch' = [launch EXCEPT
                    !.pc = "exit",
                    !.exit_code = IF \A w \in TcWorkers : launch.status[w] = "success"
                                  THEN 0 ELSE 1]

NextLaunch ==
    \/ ValidationStarts /\ Frame("launch")
    \/ ValidationGapEnds /\ Frame("launch")
    \/ ValidationChecked /\ Frame("launch")
    \/ \E w \in TcWorkers : TcWorkerStarts(w) /\ Frame("launch")
    \/ \E w \in TcWorkers : TcWorkerEnds(w) /\ Frame("launch")
    \/ LaunchSummary /\ Frame("launch")

SpecLaunch == LaunchInit /\ [][NextLaunch]_vars

TcWorkerLaunched == \E w \in TcWorkers : launch.status[w] # "none"

\* C9: a worker is launched only if the validation run of this invocation
\* wrote a passing result; when it did not, the launcher ends with exit code 1
\* and no worker launched.
C9_WorkersOnlyAfterValidationPassed ==
    /\ TcWorkerLaunched => launch.gap = "wrote_pass"
    /\ (launch.pc = "exit" /\ launch.gap # "wrote_pass")
           => launch.exit_code = 1 /\ ~TcWorkerLaunched

(***************************************************************************)
(* s16_processing/process_s16_subgroups.py and                             *)
(* triple_check/quad_check/launch_factor_idgroups.py: one thread per       *)
(* worker, each thread stores the return code of its GAP process in the    *)
(* dict results; a thread whose run_worker raises stores nothing.          *)
(***************************************************************************)
\* NUM_WORKERS of the two launchers
NumParWorkers == 3

ParWorkers == 1..NumParWorkers
ParScripts == {"process_s16_subgroups", "launch_factor_idgroups"}

\* process_s16_subgroups.main: results.get(wid, (wid, -1)) over all workers
AllSucceededS16(results) == \A w \in ParWorkers : results[w] = "rc0"

\* launch_factor_idgroups.main: the loop over sorted(results.keys())
AllOkFactor(results) ==
    \A w \in {x \in ParWorkers : results[x] # "none"} : results[w] = "rc0"

ParInit ==
    /\ Idle("par")
    /\ \E script \in ParScripts :
         par = [pc |-> "start", script |-> script,
                thread |-> [w \in ParWorkers |-> "none"],
                results |-> [w \in ParWorkers |-> "none"],
                exit_code |-> -1]

\* main up to the start of the threads (preflight_check in
\* process_s16_subgroups.py; launch_factor_idgroups.py has none)
ParMainStart ==
    /\ par.pc = "start"
    /\ \E preflight_ok \in BOOLEAN :
         IF par.script = "process_s16_subgroups" /\ ~preflight_ok
         THEN par' = [par EXCEPT !.pc = "exit", !.exit_code = 1]
         ELSE par' = [par EXCEPT !.pc = "workers",
                                 !.thread = [w \in ParWorkers |-> "started"]]

\* run_worker: the wrapper script and the log are written, GAP is started;
\* an exception here ends the thread
ParWorkerStarts(w) ==
    /\ par.pc = "workers"
    /\ par.thread[w] = "started"
    /\ \E raised \in BOOLEAN :
         par' = [par EXCEPT !.thread[w] = IF raised THEN "raised" ELSE "gap"]

\* run_worker: proc.wait(), the return code goes to results
ParWorkerEnds(w) ==
    /\ par.pc = "workers"
    /\ par.thread[w] = "gap"
    /\ \E rc \in {"rc0", "rc1"} :
         par' = [par EXCEPT !.thread[w] = "returned", !.results[w] = rc]

\* main: the threads are joined and the results are looked at
ParSummary ==
    /\ par.pc = "workers"
    /\ \A w \in ParWorkers : par.thread[w] \in {"raised", "returned"}
    /\ LET ok == IF par.script = "process_s16_subgroups"
                 THEN AllSucceededS16(par.results)
                 ELSE AllOkFactor(par.results)
       IN  par' = [par EXCEPT !.pc = "exit", !.exit_code = IF ok THEN 0 ELSE 1]

NextPar ==
    \/ ParMainStart /\ Frame("par")
    \/ \E w \in ParWorkers : ParWorkerStarts(w) /\ Frame("par")
    \/ \E w \in ParWorkers : ParWorkerEnds(w) /\ Frame("par")
    \/ ParSummary /\ Frame("par")

SpecPar == ParInit /\ [][NextPar]_vars

\* C11: the launcher ends with exit code 0 exactly when every worker finished
\* with return code 0; a failed worker, or one without a result, gives 1.
C11_ExitZeroIffAllWorkersZero ==
    par.pc = "exit" =>
        /\ par.exit_code \in {0, 1}
        /\ par.exit_code = 0 <=> \A w \in ParWorkers : par.results[w] = "rc0"

\* C11 for launch_tc_dedupe.py: exit code 0 exactly when every worker ended
\* with status "success"
TcExitZeroIffAllSuccess ==
    launch.pc = "exit" =>
        (launch.exit_code = 0 <=> \A w \in TcWorkers : launch.status[w] = "success")

(***************************************************************************)
(* The merge and check scripts with a hard-coded expected total:           *)
(* triple_check/dedupe/merge_tc_results.py,                                *)
(* s16_processing/merge_s16_results.py,                                    *)
(* triple_check/quad_check/merge_qc_results.py.                            *)
(*                                                                         *)
(* A worker file is "missing"/"unparsed" or holds a number of entries; the *)
(* numbers are drawn around the expected totals.  The field count is the   *)
(* script's final count (-1 while there is none), expected its target.     *)
(***************************************************************************)
\* worker files read by merge_tc_results.py (12) and merge_s16_results.py (8)
NumMergeFiles == 3

IDGROUP_TYPES == 4602
EXPECTED_TOTAL_A174511 == 7755
EXPECTED_TOTAL == 686165
EXPECTED_FRESH_DP_REPS == 2271
EXPECTED_TC_DP_REPS == 2269
EXPECTED_DP_OVERLAP_WITH_REGULAR == 2
EXPECTED_2GROUP_REPS == 10
EXPECTED_REGULAR_REPS == 884
EXPECTED_DIFFICULT_REPS == 1
EXPECTED_TOTAL_LARGE == 3164
EXPECTED_IDGROUP_TYPES == 4602
EXPECTED_A174511_14 == 7766

MergeScripts == {"merge_tc_results", "merge_s16_results", "merge_qc_results"}
NoCount == -1

\* len(reps) of a result file of the triple check
TcRepCounts == {0, 1, EXPECTED_TOTAL_A174511 - IDGROUP_TYPES - 1,
                EXPECTED_TOTAL_A174511 - IDGROUP_TYPES}
\* len(entries) of a worker's IdGroup file, len(records) of its large file
S16IdGroupCounts == {0, EXPECTED_TOTAL - 1, EXPECTED_TOTAL}
S16LargeCounts == {0, 1}
\* total_dp_reps of check_phase1 (NoCount: pending)
DpRepCounts == {NoCount, EXPECTED_TC_DP_REPS, EXPECTED_TC_DP_REPS + 1,
                EXPECTED_FRESH_DP_REPS}

MergeInit ==
    /\ Idle("merge")
    /\ \E script \in MergeScripts :
         merge = [pc |-> "files", script |-> script, file |-> 1, pass |-> 1,
                  errors |-> 0, total |-> 0,
                  count |-> NoCount, expected |-> NoCount, exit_code |-> -1]

\* merge_tc_results.main, lines 66-92: the next result file is parsed
TcParseResultFile ==
    /\ merge.script = "merge_tc_results" /\ merge.pc = "files"
    /\ merge.file <= NumMergeFiles
    /\ \E err \in BOOLEAN, reps \in TcRepCounts :
         merge' = [merge EXCEPT
                     !.file = @ + 1,
                     !.errors = IF err THEN @ + 1 ELSE @,
                     !.total = IF err THEN @ ELSE @ + reps]

\* merge_tc_results.main, lines 94-203
TcMergeFinish ==
    /\ merge.script = "merge_tc_results" /\ merge.pc = "files"
    /\ merge.file > NumMergeFiles
    /\ IF merge.errors > 0
       THEN merge' = [merge EXCEPT !.pc = "exit", !.exit_code = 1,
                                   !.expected = EXPECTED_TOTAL_A174511]
       ELSE \E difficult_rep \in BOOLEAN :
              LET large_reps == merge.total + (IF difficult_rep THEN 1 ELSE 0)
                  a174511 == IDGROUP_TYPES + large_reps
              IN  merge' = [merge EXCEPT
                              !.pc = "exit",
                              !.count = a174511,
                              !.expected = EXPECTED_TOTAL_A174511,
                              !.exit_code = IF a174511 = EXPECTED_TOTAL_A174511
                                            THEN 0 ELSE 1]

\* merge_s16_results.main, lines 110-118 (pass 1) and 145-153 (pass 2): the
\* next worker file is read, or is missing
S16ReadWorkerFile ==
    /\ merge.script = "merge_s16_results" /\ merge.pc = "files"
    /\ merge.pass <= 2
    /\ \E missing \in BOOLEAN,
          n \in IF merge.pass = 1 THEN S16IdGroupCounts ELSE S16LargeCounts :
         merge' = [merge EXCEPT
                     !.total = IF missing THEN @ ELSE @ + n,
                     !.file = IF merge.file = NumMergeFiles THEN 1 ELSE @ + 1,
                     !.pass = IF merge.file = NumMergeFiles THEN @ + 1 ELSE @]

\* merge_s16_results.main, lines 186-250: the outputs are written, the total
\* is compared with EXPECTED_TOTAL, main returns 0
S16MergeFinish ==
    /\ merge.script = "merge_s16_results" /\ merge.pc = "files"
    /\ merge.pass > 2
    /\ merge' = [merge EXCEPT !.pc = "exit", !.count = merge.total,
                              !.expected = EXPECTED_TOTAL, !.exit_code = 0]

\* merge_qc_results.main: the three phases are looked at, the cross-check
\* total is computed when all passed, main returns 0
QcMergeRun ==
    /\ merge.script = "merge_qc_results" /\ merge.pc = "files"
    /\ \E dp_result_found \in BOOLEAN, dp_reps \in DpRepCounts,
          phase2b \in {"PASS", "FAIL", "PENDING"},
          phase2c \in {"PASS", "FAIL", "PENDING"} :
         LET phase1 == IF ~dp_result_found \/ dp_reps = NoCount THEN "PENDING"
                       ELSE IF dp_reps \in {EXPECTED_FRESH_DP_REPS, EXPECTED_TC_DP_REPS}
                            THEN "MATCH" ELSE "MISMATCH"
             all_pass == phase1 = "MATCH" /\ phase2b = "PASS" /\ phase2c = "PASS"
             total_large_cross == dp_reps + EXPECTED_2GROUP_REPS + EXPECTED_REGULAR_REPS
                                    + EXPECTED_DIFFICULT_REPS
                                    - EXPECTED_DP_OVERLAP_WITH_REGULAR
         IN  merge' = [merge EXCEPT
                         !.pc = "exit",
                         !.count = IF all_pass THEN total_large_cross ELSE NoCount,
                         !.expected = EXPECTED_TOTAL_LARGE,
                         !.exit_code = 0]

NextMerge ==
    \/ TcParseResultFile /\ Frame("merge")
    \/ TcMergeFinish /\ Frame("merge")
    \/ S16ReadWorkerFile /\ Frame("merge")
    \/ S16MergeFinish /\ Frame("merge")
    \/ QcMergeRun /\ Frame("merge")

SpecMerge == MergeInit /\ [][NextMerge]_vars

\* C12: a merge or check script whose final count differs from its expected
\* total ends with exit code 1, and ends with exit code 0 only when the
\* counts match.
C12_ExitOneOnMismatch ==
    merge.pc = "exit" =>
        /\ merge.count # merge.expected => merge.exit_code = 1
        /\ merge.exit_code = 0 => merge.count = merge.expected

(***************************************************************************)
(* The timeout of a GAP subprocess in phase_a1_enumerate.run_enumeration   *)
(* and phase_a2_compute_leaves.run_leaf_worker.                            *)
(*                                                                         *)
(* Time is a clock of ticks that starts at Popen.  Python first reads      *)
(* proc.stdout to its end and only then calls proc.wait(timeout=TIMEOUT).  *)
(* "sentinel" is what makes the run a success: the ENUMERATION_COMPLETE    *)
(* line seen on stdout (phase A-1), the "# Complete:" line in the result   *)
(* file (phase A-2, where the file may hold it from an earlier run).       *)
(***************************************************************************)
\* TIMEOUT, in ticks
TimeoutTicks == 2
\* the clock stops here
MaxClock == 4

TmoScripts == {"phase_a1_enumerate", "phase_a2_compute_leaves"}

TmoInit ==
    /\ Idle("tmo")
    /\ \E script \in TmoScripts, stale \in BOOLEAN :
         /\ script = "phase_a1_enumerate" => ~stale
         /\ tmo = [pc |-> "start", script |-> script,
                   gap |-> "notstarted", stdout_open |-> FALSE,
                   sentinel |-> stale, clock |-> 0, wait_start |-> 0,
                   timed_out |-> FALSE, success |-> FALSE]

\* subprocess.Popen (an exception is caught: no process, no success unless
\* the result file of phase A-2 holds the marker)
TmoPopen ==
    /\ tmo.pc = "start"
    /\ \E spawned \in BOOLEAN :
         IF spawned
         THEN tmo' = [tmo EXCEPT !.pc = "reading", !.gap = "running",
                                 !.stdout_open = TRUE]
         ELSE tmo' = [tmo EXCEPT !.pc = "check"]

\* time passes while GAP runs; proc.wait(timeout) raises as soon as TIMEOUT
\* has passed since it was called, so the clock does not go beyond that
TmoTick ==
    /\ tmo.gap = "running"
    /\ tmo.clock < MaxClock
    /\ ~(tmo.pc = "waiting" /\ tmo.clock - tmo.wait_start >= TimeoutTicks)
    /\ tmo' = [tmo EXCEPT !.clock = @ + 1]

\* GAP prints ENUMERATION_COMPLETE / writes "# Complete:" to the result file
TmoGapCompletes ==
    /\ tmo.gap = "running" /\ tmo.stdout_open /\ ~tmo.sentinel
    /\ tmo' = [tmo EXCEPT !.sentinel = TRUE]

\* GAP (or a child that inherited the pipe) closes stdout and runs on
TmoGapClosesStdout ==
    /\ tmo.gap = "running" /\ tmo.stdout_open
    /\ tmo' = [tmo EXCEPT !.stdout_open = FALSE]

\* the GAP process ends
TmoGapExits ==
    /\ tmo.gap = "running"
    /\ tmo' = [tmo EXCEPT !.gap = "exited", !.stdout_open = FALSE]

\* "for line in proc.stdout" ends at end of file; proc.wait(timeout=TIMEOUT)
\* is called
TmoReadLoopEnds ==
    /\ tmo.pc = "reading" /\ ~tmo.stdout_open
    /\ tmo' = [tmo EXCEPT !.pc = "waiting", !.wait_start = tmo.clock]

\* proc.wait returns: the process has ended
TmoWaitReturns ==
    /\ tmo.pc = "waiting" /\ tmo.gap = "exited"
    /\ tmo' = [tmo EXCEPT !.pc = "check"]

\* subprocess.TimeoutExpired: proc.kill()
TmoTimeoutExpired ==
    /\ tmo.pc = "waiting" /\ tmo.gap = "running"
    /\ tmo.clock - tmo.wait_start >= TimeoutTicks
    /\ tmo' = [tmo EXCEPT !.pc = "check", !.gap = "killed", !.timed_out = TRUE]

\* the result: success of run_enumeration, result["success"] of
\* run_leaf_worker
TmoReturns ==
    /\ tmo.pc = "check"
    /\ tmo' = [tmo EXCEPT !.pc = "returned", !.success = tmo.sentinel]

NextTmo ==
    \/ TmoPopen /\ Frame("tmo")
    \/ TmoTick /\ Frame("tmo")
    \/ TmoGapCompletes /\ Frame("tmo")
    \/ TmoGapClosesStdout /\ Frame("tmo")
    \/ TmoGapExits /\ Frame("tmo")
    \/ TmoReadLoopEnds /\ Frame("tmo")
    \/ TmoWaitReturns /\ Frame("tmo")
    \/ TmoTimeoutExpired /\ Frame("tmo")
    \/ TmoReturns /\ Frame("tmo")

SpecTmo == TmoInit /\ [][NextTmo]_vars

\* C13: a GAP subprocess does not run beyond the timeout (it is killed when
\* the timeout elapses), and a run whose subprocess was killed by the timeout
\* is reported as failed.
C13_TimeoutKillsAndFails ==
    /\ tmo.gap = "running" => tmo.clock <= TimeoutTicks
    /\ (tmo.pc = "returned" /\ tmo.timed_out) => ~tmo.success

\* the first half of C13 alone
TmoNeverOutlivesTimeout == tmo.gap = "running" => tmo.clock <= TimeoutTicks

\* the second half of C13 alone
TmoKilledIsFailed == (tmo.pc = "returned" /\ tmo.timed_out) => ~tmo.success

(***************************************************************************)
(* The distribution of work items over workers:                            *)
(*   prepare_tc_dedupe.greedy_bin_pack, phase_a1_enumerate                 *)
(*   .create_leaf_batches, launch_verify.distribute_buckets (greedy by     *)
(*   load), and the GAP code of dedup_parallel.run_phase_b1 (round-robin). *)
(*                                                                         *)
(* An item is [id, size]: id is its place in the input, size is            *)
(* len(indices), est_time, bkt["size"] or Length(buckets.(k)).             *)
(***************************************************************************)
MaxItems == 3
MaxSize == 3
NumPackWorkers == 2

PackWorkers == 1..NumPackWorkers
GreedyScripts == {"prepare_tc_dedupe", "phase_a1_enumerate", "launch_verify"}
PackScripts == GreedyScripts \cup {"dedup_parallel"}
PackInputs ==
    UNION { {[i \in 1..n |-> [id |-> i, size |-> f[i]]] : f \in [1..n -> 1..MaxSize]}
            : n \in 0..MaxItems }

RECURSIVE InsertDesc(_, _)
\* stable: an item goes behind the items of at least its size
InsertDesc(s, x) ==
    IF s = <<>> THEN <<x>>
    ELSE IF x.size > Head(s).size THEN <<x>> \o s
    ELSE <<Head(s)>> \o InsertDesc(Tail(s), x)

RECURSIVE SortDesc(_)
\* list.sort(key=size, reverse=True) / sorted(..., reverse=True)
SortDesc(s) ==
    IF s = <<>> THEN <<>>
    ELSE InsertDesc(SortDesc(SubSeq(s, 1, Len(s) - 1)), s[Len(s)])

RECURSIVE InsertAscBySize(_, _)
InsertAscBySize(s, x) ==
    IF s = <<>> THEN <<x>>
    ELSE IF x.size < Head(s).size THEN <<x>> \o s
    ELSE <<Head(s)>> \o InsertAscBySize(Tail(s), x)

RECURSIVE SortexPermuted(_)
\* perm := Sortex(sizes); Permuted(multiBucketKeys, perm): ascending, stable
SortexPermuted(s) ==
    IF s = <<>> THEN <<>>
    ELSE InsertAscBySize(SortexPermuted(SubSeq(s, 1, Len(s) - 1)), s[Len(s)])

\* Reversed(list)
Reversed(s) == [i \in 1..Len(s) |-> s[Len(s) + 1 - i]]

\* an assignment that always takes the first worker (a mutant)
FirstWorker(loads) == 1

\* worker_loads.index(min(worker_loads))
LeastLoaded(loads) == IndexOf(loads, Min(loads))

\* a round-robin that stays on the first worker for two rounds (a mutant)
RoundRobinStuck(i, numWorkers) == IF i <= 2 THEN 1 ELSE ((i - 1) % numWorkers) + 1

\* workerIdx := ((i - 1) mod numWorkers) + 1
RoundRobin(i, numWorkers) == ((i - 1) % numWorkers) + 1

PackInit ==
    /\ Idle("pack")
    /\ \E script \in PackScripts, items \in PackInputs :
         pack = [pc |-> "sort", script |-> script, items |-> items,
                 sorted |-> <<>>, i |-> 1,
                 workers |-> [w \in PackWorkers |-> <<>>],
                 loads |-> [w \in PackWorkers |-> 0],
                 trace |-> <<>>]

\* the items are put in order, largest first (Phase B-1 takes the buckets of
\* more than one group only)
PackSort ==
    /\ pack.pc = "sort"
    /\ pack' = [pack EXCEPT
                  !.sorted = IF pack.script = "dedup_parallel"
                             THEN Reversed(SortexPermuted(
                                      SelectSeq(pack.items, LAMBDA b : b.size > 1)))
                             ELSE SortDesc(pack.items),
                  !.pc = "assign"]

\* one pass of the assignment loop
PackAssign ==
    /\ pack.pc = "assign"
    /\ pack.i <= Len(pack.sorted)
    /\ LET item == pack.sorted[pack.i]
           w == IF pack.script = "dedup_parallel"
                THEN RoundRobin(pack.i, NumPackWorkers)
                ELSE LeastLoaded(pack.loads)
       IN  pack' = [pack EXCEPT
                      !.workers[w] = Append(@, item),
                      !.loads[w] = @ + item.size,
                      !.i = @ + 1,
                      !.trace = Append(@, [item |-> item, worker |-> w,
                                           loads |-> pack.loads,
                                           counts |-> [v \in PackWorkers |->
                                                         Len(pack.workers[v])]])]

\* the loop is over: the batches are reported and written
PackDone ==
    /\ pack.pc = "assign"
    /\ pack.i > Len(pack.sorted)
    /\ pack' = [pack EXCEPT !.pc = "done"]

NextPack ==
    \/ PackSort /\ Frame("pack")
    \/ PackAssign /\ Frame("pack")
    \/ PackDone /\ Frame("pack")

SpecPack == PackInit /\ [][NextPack]_vars

\* the k-th item handed out is at least as large as every item handed out
\* after it, and every item to distribute is handed out once
TakenLargestFirst(todo) ==
    /\ \A k, l \in 1..Len(pack.trace) :
         k < l => pack.trace[k].item.size >= pack.trace[l].item.size
    /\ \A k, l \in 1..Len(pack.trace) :
         pack.trace[k].item.id = pack.trace[l].item.id => k = l
    /\ {pack.trace[k].item : k \in 1..Len(pack.trace)} \subseteq Range(todo)
    /\ pack.pc = "done" => Len(pack.trace) = Len(todo)

RECURSIVE LoadBefore(_, _)
\* what worker v was given in the first k hand-outs
LoadBefore(k, v) ==
    IF k = 0 THEN 0
    ELSE LoadBefore(k - 1, v) +
         (IF pack.trace[k].worker = v THEN pack.trace[k].item.size ELSE 0)

RECURSIVE CountBefore(_, _)
\* how many buckets worker v held after the first k hand-outs
CountBefore(k, v) ==
    IF k = 0 THEN 0
    ELSE CountBefore(k - 1, v) + (IF pack.trace[k].worker = v THEN 1 ELSE 0)

\* C14: in the three greedy distributions the items are taken in descending
\* order of size and each item goes to the worker whose accumulated load is
\* smallest at that moment.
C14_GreedyLargestFirstLeastLoaded ==
    pack.script \in GreedyScripts =>
        /\ TakenLargestFirst(pack.items)
        /\ \A k \in 1..Len(pack.trace) : \A v \in PackWorkers :
             LoadBefore(k - 1, pack.trace[k].worker) <= LoadBefore(k - 1, v)
        /\ \A v \in PackWorkers :
             /\ pack.loads[v] = LoadBefore(Len(pack.trace), v)
             /\ Len(pack.workers[v]) = CountBefore(Len(pack.trace), v)

\* a greedy run with items of different sizes and work on every worker
C14_Witness ==
    /\ pack.script \in GreedyScripts /\ pack.pc = "done"
    /\ Len(pack.trace) = MaxItems
    /\ pack.items[1].size < pack.items[2].size
    /\ \A w \in PackWorkers : pack.workers[w] # <<>>
    /\ \E w, v \in PackWorkers : pack.loads[w] # pack.loads[v]

\* C15: Phase B-1 hands out the buckets of more than one group largest first,
\* each to a worker that holds the fewest buckets at that moment, and the
\* bucket counts of two workers never differ by more than one.
C15_RoundRobinKeepsCountsBalanced ==
    pack.script = "dedup_parallel" =>
        /\ TakenLargestFirst(SelectSeq(pack.items, LAMBDA b : b.size > 1))
        /\ \A k \in 1..Len(pack.trace) : \A v \in PackWorkers :
             CountBefore(k - 1, pack.trace[k].worker) <= CountBefore(k - 1, v)
        /\ \A v, w \in PackWorkers :
             /\ Len(pack.workers[v]) = CountBefore(Len(pack.trace), v)
             /\ Len(pack.workers[v]) - Len(pack.workers[w]) <= 1

\* Phase B-1 handed out three buckets of different sizes, one single-group
\* bucket aside or not, and wrapped around to the first worker
C15_Witness ==
    /\ pack.script = "dedup_parallel" /\ pack.pc = "done"
    /\ Len(pack.trace) = MaxItems
    /\ pack.items[1].size < pack.items[2].size
    /\ Len(pack.workers[1]) = 2
(***************************************************************************)
(* phase_a4_combine.py: merge_leaf_results and the summary of main.        *)
(*                                                                         *)
(* A file is the sequence of the tokens the parser looks for:              *)
(*   "REC" rec(gens :=   "[" "]"   "INV" inv :=   "SRC" source :=   "Q" "  *)
(* Text between them (numbers, commas, comment lines) holds none of these  *)
(* and is left out.  A leaf result file is what the runs of a leaf worker  *)
(* appended to it (phase_a2_compute_leaves.py lines 176-260): whole        *)
(* records, a record cut short where a run was killed, and the "];" a run  *)
(* writes when it ends; a later run of the same worker appends behind      *)
(* whatever is there.                                                      *)
(***************************************************************************)
MaxPieces == 4

WholeRecord == <<"REC", "[", "]", "INV", "[", "]", "SRC", "Q", "Q">>
CutRecords == {SubSeq(WholeRecord, 1, k) : k \in 1..(Len(WholeRecord) - 1)}
EndOfRun == <<"]">>
Pieces == {WholeRecord, EndOfRun} \cup CutRecords
\* the files made of up to max_pieces pieces
LeafFiles(max_pieces) ==
    UNION { {Flatten(f) : f \in [1..n -> Pieces]} : n \in 1..max_pieces }

NotFound == 0

RECURSIVE FindFrom(_, _, _)
\* content.find(tok, from): the first place at or behind from, or NotFound
FindFrom(text, tok, from) ==
    IF from > Len(text) THEN NotFound
    ELSE IF text[from] = tok THEN from
    ELSE FindFrom(text, tok, from + 1)

RECURSIVE ScanBracket(_, _, _)
ScanBracket(text, i, depth) ==
    IF i > Len(text) THEN NotFound
    ELSE IF text[i] = "[" THEN ScanBracket(text, i + 1, depth + 1)
    ELSE IF text[i] = "]"
         THEN IF depth - 1 = 0 THEN i ELSE ScanBracket(text, i + 1, depth - 1)
    ELSE ScanBracket(text, i + 1, depth)

\* _match_bracket(text, start)
match_bracket(text, start) == ScanBracket(text, start, 0)

\* a recount that counts the entries the merge wrote (a mutant)
CountWritten(text) == Len(SelectSeq(text, LAMBDA t : t = "SRC"))

\* count_entries: content.count("rec(gens :=")
count_entries(text) == Len(SelectSeq(text, LAMBDA t : t = "REC"))

\* one pass of the while loop of merge_leaf_results from position pos:
\* "break", "continue" at a new position, or an "entry" to write
ParsePass(content, pos) ==
    LET rec_start == FindFrom(content, "REC", pos)
        gens_start == FindFrom(content, "[", rec_start + 1)
        gens_end == match_bracket(content, gens_start)
        inv_marker == FindFrom(content, "INV", gens_end)
        inv_start == FindFrom(content, "[", inv_marker + 1)
        inv_end == match_bracket(content, inv_start)
        source_marker == FindFrom(content, "SRC", inv_end)
        quote1 == FindFrom(content, "Q", source_marker + 1)
        quote2 == FindFrom(content, "Q", quote1 + 1)
        Break == [kind |-> "break", pos |-> pos, entry |-> <<>>]
    IN  IF rec_start = NotFound THEN Break
        ELSE IF gens_start = NotFound THEN Break
        ELSE IF gens_end = NotFound
             THEN [kind |-> "continue", pos |-> rec_start + 1, entry |-> <<>>]
        ELSE IF inv_marker = NotFound THEN Break
        ELSE IF inv_start = NotFound THEN Break
        ELSE IF inv_end = NotFound
             THEN [kind |-> "continue", pos |-> inv_marker + 1, entry |-> <<>>]
        ELSE IF source_marker = NotFound THEN Break
        ELSE IF quote1 = NotFound THEN Break
        ELSE IF quote2 = NotFound THEN Break
        ELSE [kind |-> "entry", pos |-> quote2 + 1,
              entry |-> <<"REC">> \o SubSeq(content, gens_start, gens_end)
                        \o <<"INV">> \o SubSeq(content, inv_start, inv_end)
                        \o <<"SRC", "Q">>
                        \o SubSeq(content, quote1 + 1, quote2 - 1) \o <<"Q">>]

A4Init ==
    /\ Idle("a4")
    /\ \E content \in LeafFiles(MaxPieces) :
         a4 = [pc |-> "parse", content |-> content, pos |-> 1,
               out |-> <<"[">>, entry_count |-> 0,
               complete_line |-> NoCount, leaf_count |-> NoCount,
               recount |-> NoCount]

\* a pass of the while loop that does not leave it
A4ParsePass ==
    /\ a4.pc = "parse"
    /\ a4.pos <= Len(a4.content)
    /\ LET p == ParsePass(a4.content, a4.pos)
       IN  /\ p.kind # "break"
           /\ a4' = [a4 EXCEPT
                       !.pos = p.pos,
                       !.out = @ \o p.entry,
                       !.entry_count = IF p.kind = "entry" THEN @ + 1 ELSE @]

\* the loop is left; "];" and the "# Complete:" line are written and
\* merge_leaf_results returns (True, entry_count)
A4MergeReturns ==
    /\ a4.pc = "parse"
    /\ \/ a4.pos > Len(a4.content)
       \/ ParsePass(a4.content, a4.pos).kind = "break"
    /\ a4' = [a4 EXCEPT !.out = @ \o <<"]">>,
                        !.complete_line = a4.entry_count,
                        !.leaf_count = a4.entry_count,
                        !.pc = "merged"]

\* main lists the worker files for Phase B-1 with count_entries of each
A4Summary ==
    /\ a4.pc = "merged"
    /\ a4' = [a4 EXCEPT !.recount = count_entries(a4.out), !.pc = "done"]

NextA4 ==
    \/ A4ParsePass /\ Frame("a4")
    \/ A4MergeReturns /\ Frame("a4")
    \/ A4Summary /\ Frame("a4")

SpecA4 == A4Init /\ [][NextA4]_vars

\* the leaf file holds whole records and ends of runs only
NoCutRecord ==
    \E n \in 1..MaxPieces : \E f \in [1..n -> {WholeRecord, EndOfRun}] :
        a4.content = Flatten(f)

\* C16: counting the records of the combined file again gives the total of
\* its "# Complete:" line.
C16_RecountEqualsCompleteLine ==
    a4.pc = "done" => a4.recount = a4.complete_line

\* for leaf files without a cut record the recount is the recorded total
RecountEqualsWhenNoCutRecord ==
    (a4.pc = "done" /\ NoCutRecord) => a4.recount = a4.complete_line
(***************************************************************************)
(* triple_check/merge_results.py: main, the large groups.                  *)
(*                                                                         *)
(* A large-group record is the text of a rec(...) with the three fields    *)
(* main's patterns address: originalIndex, combinedIndex and index.        *)
(* Worker w of process_s14_subgroups.py handles the subgroups w, w + N,    *)
(* w + 2N, ... in this order, so its file lists its large groups by        *)
(* ascending originalIndex.                                                *)
(***************************************************************************)
NumMrWorkers == 2
MaxOrigIdx == 4

MrWorkers == 1..NumMrWorkers
\* how the workers numbered combinedIndex and index in their own files
Numberings == {"local", "original"}

\* the records of worker w's file when the large groups are those of L
WorkerRecords(w, L, numbering) ==
    LET mine == SetToAscSeq({x \in L : ((x - 1) % NumMrWorkers) + 1 = w})
    IN  [k \in 1..Len(mine) |->
           [originalIndex |-> mine[k],
            combinedIndex |-> IF numbering = "local" THEN k ELSE mine[k],
            index |-> IF numbering = "local" THEN k ELSE mine[k]]]

RECURSIVE InsertByOriginalIndex(_, _)
\* stable: a record goes behind the records of at most its key
InsertByOriginalIndex(s, r) ==
    IF s = <<>> THEN <<r>>
    ELSE IF r.originalIndex < Head(s).originalIndex THEN <<r>> \o s
    ELSE <<Head(s)>> \o InsertByOriginalIndex(Tail(s), r)

RECURSIVE SortByOriginalIndex(_)
SortByOriginalIndex(s) ==
    IF s = <<>> THEN <<>>
    ELSE InsertByOriginalIndex(SortByOriginalIndex(SubSeq(s, 1, Len(s) - 1)),
                               s[Len(s)])

\* the records kept in the order of the worker files (a mutant)
large_unsorted(all_large) == all_large

\* large_with_idx.sort(key=lambda x: x[0] if x[0] else 0)
large_with_idx(all_large) == SortByOriginalIndex(all_large)

\* re.sub(r'combinedIndex := \d+', ...) then re.sub(r'index := \d+', ...):
\* the second pattern is in lower case and leaves "originalIndex" and
\* "combinedIndex" alone
Renumbered(r, i) == [r EXCEPT !.combinedIndex = i + 1, !.index = i + 1]

MrInit ==
    /\ Idle("mr")
    /\ \E L \in SUBSET (1..MaxOrigIdx), numbering \in Numberings,
          present \in [MrWorkers -> BOOLEAN] :
         mr = [pc |-> "collect", worker_id |-> 1,
               files |-> [w \in MrWorkers |->
                            [exists |-> present[w],
                             records |-> IF present[w]
                                         THEN WorkerRecords(w, L, numbering)
                                         ELSE <<>>]],
               all_large |-> <<>>, sorted |-> <<>>, i |-> 0, written |-> <<>>]

\* one pass of the loop over the worker files: a missing file is skipped
MrCollectWorker ==
    /\ mr.pc = "collect"
    /\ mr.worker_id <= NumMrWorkers
    /\ mr' = [mr EXCEPT
                !.all_large = IF mr.files[mr.worker_id].exists
                              THEN @ \o mr.files[mr.worker_id].records
                              ELSE @,
                !.worker_id = @ + 1]

\* the records are sorted by originalIndex
MrSort ==
    /\ mr.pc = "collect"
    /\ mr.worker_id > NumMrWorkers
    /\ mr' = [mr EXCEPT !.sorted = large_with_idx(mr.all_large), !.pc = "write"]

\* one pass of the loop that writes the large-group file
MrWriteRecord ==
    /\ mr.pc = "write"
    /\ mr.i < Len(mr.sorted)
    /\ mr' = [mr EXCEPT !.written = Append(@, Renumbered(mr.sorted[mr.i + 1], mr.i)),
                        !.i = @ + 1]

\* "];" is written and the file closed
MrClose ==
    /\ mr.pc = "write"
    /\ mr.i >= Len(mr.sorted)
    /\ mr' = [mr EXCEPT !.pc = "done"]

NextMr ==
    \/ MrCollectWorker /\ Frame("mr")
    \/ MrSort /\ Frame("mr")
    \/ MrWriteRecord /\ Frame("mr")
    \/ MrClose /\ Frame("mr")

SpecMr == MrInit /\ [][NextMr]_vars

\* the originalIndex values of the records of all worker files
AllOriginalIndices ==
    UNION { {mr.files[w].records[k].originalIndex :
                k \in 1..Len(mr.files[w].records)} : w \in MrWorkers }

MaxTestCount == 1

CYGWIN_TESTS == <<"test_factor_comparison", "test_bucket54_regression",
                  "test_deduplication_integration">>
QUICK_TESTS == <<"test_factor_comparison", "test_bucket54_regression">>
WSL_TESTS == <<"test_anupq_comprehensive", "test_anupq_real_data">>
TrArgs == {"--all", "--cygwin-only", "--wsl-only", "--quick"}

NoResultFile == [exists |-> FALSE]
\* a file int() fails on: parse_result_file returns {"error": ...}
UnparsableResultFile == [exists |-> TRUE, parsable |-> FALSE]
TestResultFiles ==
    {NoResultFile, UnparsableResultFile} \cup
    [exists : {TRUE}, parsable : {TRUE}, passCount : 0..MaxTestCount,
     failCount : 0..MaxTestCount, errorCount : 0..MaxTestCount]

\* the counts main adds to the summary for one script
parse_result_file(file) ==
    IF file.exists /\ file.parsable
    THEN [passCount |-> file.passCount, failCount |-> file.failCount,
          errorCount |-> file.errorCount]
    ELSE [passCount |-> 0, failCount |-> 0, errorCount |-> 0]

\* the cygwin scripts to run, then the WSL scripts
TestsToRun(arg) ==
    LET cyg == IF arg = "--wsl-only" THEN <<>>
               ELSE IF arg = "--quick" THEN QUICK_TESTS ELSE CYGWIN_TESTS
        wsl == IF arg \in {"--cygwin-only", "--quick"} THEN <<>> ELSE WSL_TESTS
    IN  [k \in 1..Len(cyg) |-> [script |-> cyg[k], environment |-> "cygwin"]]
        \o [k \in 1..Len(wsl) |-> [script |-> wsl[k], environment |-> "wsl"]]

TrInit ==
    /\ Idle("tr")
    /\ \E arg \in TrArgs :
         tr = [pc |-> "run", arg |-> arg, next |-> 1, tests |-> <<>>,
               passed |-> 0, failed |-> 0, errors |-> 0, skipped |-> 0,
               exit_code |-> NoCount]

\* one pass of the loop over the cygwin scripts: run_gap_cygwin, then the
\* result file is parsed and added to the summary
TrRunCygwinTest ==
    /\ tr.pc = "run"
    /\ tr.next <= Len(TestsToRun(tr.arg))
    /\ TestsToRun(tr.arg)[tr.next].environment = "cygwin"
    /\ \E status \in {"success", "failed", "error"}, file \in TestResultFiles :
         LET parsed == parse_result_file(file)
         IN  tr' = [tr EXCEPT
                      !.tests = Append(@, [script |-> TestsToRun(tr.arg)[tr.next].script,
                                           status |-> status]),
                      !.passed = @ + parsed.passCount,
                      !.failed = @ + parsed.failCount,
                      !.errors = @ + parsed.errorCount,
                      !.next = @ + 1]

\* one pass of the loop over the WSL scripts: run_gap_wsl, which skips the
\* script when WSL is not there
TrRunWslTest ==
    /\ tr.pc = "run"
    /\ tr.next <= Len(TestsToRun(tr.arg))
    /\ TestsToRun(tr.arg)[tr.next].environment = "wsl"
    /\ \E status \in {"success", "failed", "error", "skipped"},
          file \in TestResultFiles :
         LET parsed == IF status = "skipped"
                       THEN parse_result_file(NoResultFile)
                       ELSE parse_result_file(file)
         IN  tr' = [tr EXCEPT
                      !.tests = Append(@, [script |-> TestsToRun(tr.arg)[tr.next].script,
                                           status |-> status]),
                      !.passed = @ + parsed.passCount,
                      !.failed = @ + parsed.failCount,
                      !.errors = @ + parsed.errorCount,
                      !.skipped = IF status = "skipped" THEN @ + 1 ELSE @,
                      !.next = @ + 1]

\* the summary is written and main returns the exit code
TrReturns ==
    /\ tr.pc = "run"
    /\ tr.next > Len(TestsToRun(tr.arg))
    /\ tr' = [tr EXCEPT
                !.exit_code = IF tr.failed > 0 \/ tr.errors > 0 THEN 1 ELSE 0,
                !.pc = "done"]

NextTr ==
    \/ TrRunCygwinTest /\ Frame("tr")
    \/ TrRunWslTest /\ Frame("tr")
    \/ TrReturns /\ Frame("tr")

SpecTr == TrInit /\ [][NextTr]_vars

\* C18: the test runner exits 1 if a script it ran failed or errored, and 0
\* only if every script it ran succeeded.
C18_ExitOneIfAnyScriptFailed ==
    tr.pc = "done" =>
        /\ (\E k \in 1..Len(tr.tests) : tr.tests[k].status \in {"failed", "error"})
              => tr.exit_code = 1
        /\ tr.exit_code = 0 =>
              \A k \in 1..Len(tr.tests) : tr.tests[k].status \in {"success", "skipped"}

\* the exit code is 1 exactly when the result files parsed hold a failure or
\* an error
TrExitOneIffCountedFailure ==
    tr.pc = "done" => (tr.exit_code = 1 <=> (tr.failed > 0 \/ tr.errors > 0))

\* ---------------------------------------------------------------------
\* s16_processing/merge_s16_results.py and triple_check/merge_results.py :
\* parse_large_groups_file().  A worker file is the assignment
\* S16_LARGE_W<n> := [ ... ]; the text between the brackets is split into
\* lines and the entries are cut out by counting parentheses per line.
\* ---------------------------------------------------------------------
MaxEntries == 3

\* how GAP laid an entry out: on one line, on several lines, or on several
\* lines with an inner record on a line of its own
EntryShapes == {"one", "several", "inner"}

\* a line of the list: the entry it belongs to (0 for a blank line), what it
\* is, and whether a comma ends it
Line(e, part, comma) == [entry |-> e, part |-> part, comma |-> comma]

BlankLine == Line(0, "blank", FALSE)

\* the lines of entry e; the comma follows the closing parenthesis
EntryLines(e, shape, comma) ==
    CASE shape = "one"     -> << Line(e, "whole", comma) >>
      [] shape = "several" -> << Line(e, "head", FALSE), Line(e, "field", TRUE),
                                 Line(e, "tail", comma) >>
      [] shape = "inner"   -> << Line(e, "head", FALSE), Line(e, "inner_rec", TRUE),
                                 Line(e, "tail", comma) >>

\* the worker files: with or without the assignment, the entries' layouts,
\* and whether "];" stands on a line of its own
LargeGroupFiles(max_entries) ==
    { [has_list |-> h, shapes |-> sh, closing_own_line |-> c] :
        h \in BOOLEAN, c \in BOOLEAN,
        sh \in UNION { [1..n -> EntryShapes] : n \in 1..max_entries } }

\* list_content.split('\n'): the rest of the line of "[", the entries, and
\* the empty piece before "];" when that stands on its own line
ListLines(file) ==
    LET n == Len(file.shapes)
    IN  << BlankLine >>
        \o Flatten([e \in 1..n |-> EntryLines(e, file.shapes[e], e < n)])
        \o (IF file.closing_own_line THEN << BlankLine >> ELSE << >>)

\* the top-level entries of the list in file order, without the separating
\* comma
TopLevelEntries(file) ==
    IF file.has_list
    THEN [e \in 1..Len(file.shapes) |-> EntryLines(e, file.shapes[e], FALSE)]
    ELSE << >>

\* stripped.startswith('rec(')
startswith_rec(ln) == ln.part \in {"whole", "head", "inner_rec"}

\* line.count('(') - line.count(')')
paren_delta(ln) ==
    CASE ln.part = "head" -> 1
      [] ln.part = "tail" -> -1
      [] OTHER -> 0

\* rec_str.rstrip().rstrip(','): trailing blank lines go, then the commas
\* that end the text
RECURSIVE rstrip_comma(_)
rstrip_comma(text) ==
    IF text = << >> THEN << >>
    ELSE IF text[Len(text)].part = "blank"
         THEN rstrip_comma(SubSeq(text, 1, Len(text) - 1))
         ELSE [text EXCEPT ![Len(text)].comma = FALSE]

PlfInit ==
    /\ Idle("plf")
    /\ \E file \in LargeGroupFiles(MaxEntries) :
         plf = [pc |-> "search", file |-> file, lines |-> << >>, next |-> 1,
                records |-> << >>, current_record |-> << >>, depth |-> 0,
                in_record |-> FALSE]

\* re.search for the assignment: without a match the function returns []
PlfSearch ==
    /\ plf.pc = "search"
    /\ plf' = IF plf.file.has_list
              THEN [plf EXCEPT !.lines = ListLines(plf.file), !.pc = "lines"]
              ELSE [plf EXCEPT !.pc = "done"]

\* one pass of "for line in lines"
PlfLine ==
    /\ plf.pc = "lines"
    /\ plf.next <= Len(plf.lines)
    /\ LET ln == plf.lines[plf.next]
           with_line == Append(plf.current_record, ln)
           new_depth == plf.depth + paren_delta(ln)
       IN  plf' =
             IF startswith_rec(ln) /\ plf.depth = 0
             THEN [plf EXCEPT !.in_record = TRUE,
                              !.current_record = << ln >>,
                              !.depth = paren_delta(ln),
                              !.next = @ + 1]
             ELSE IF plf.in_record
             THEN IF new_depth <= 0
                  THEN [plf EXCEPT !.records = Append(@, rstrip_comma(with_line)),
                                   !.current_record = << >>,
                                   !.in_record = FALSE,
                                   !.depth = 0,
                                   !.next = @ + 1]
                  ELSE [plf EXCEPT !.current_record = with_line,
                                   !.depth = new_depth,
                                   !.next = @ + 1]
             ELSE [plf EXCEPT !.next = @ + 1]

\* return records
PlfReturn ==
    /\ plf.pc = "lines"
    /\ plf.next > Len(plf.lines)
    /\ plf' = [plf EXCEPT !.pc = "done"]

NextPlf ==
    \/ PlfSearch /\ Frame("plf")
    \/ PlfLine /\ Frame("plf")
    \/ PlfReturn /\ Frame("plf")

SpecPlf == PlfInit /\ [][NextPlf]_vars

\* C22: the parser returns every top-level entry of the list exactly once
\* and in file order, whether the entry spans one line or several.
C22_EveryEntryOnceInFileOrder ==
    plf.pc = "done" => plf.records = TopLevelEntries(plf.file)

\* a list all of whose entries span several lines is returned entry by entry
SeveralLineEntriesOnceInFileOrder ==
    (/\ plf.pc = "done"
     /\ \A e \in 1..Len(plf.file.shapes) : plf.file.shapes[e] # "one")
        => plf.records = TopLevelEntries(plf.file)

\* ---------------------------------------------------------------------
\* triple_check/quad_check/launch_factor_idgroups.py : main() divides the
\* indices 1..TOTAL_GROUPS among NUM_WORKERS workers; worker w + 1 is
\* started with START_INDEX = start and END_INDEX = end.
\* ---------------------------------------------------------------------
MaxTotalGroups == 9
MaxNumWorkers == 4

\* the result of the floor division, for comparison
chunk_size_floor(total_groups, num_workers) == total_groups \div num_workers

\* chunk_size = (TOTAL_GROUPS + NUM_WORKERS - 1) // NUM_WORKERS
chunk_size(total_groups, num_workers) ==
    (total_groups + num_workers - 1) \div num_workers

\* min((w + 1) * chunk_size, TOTAL_GROUPS)
RangeEnd(w, chunk, total_groups) ==
    IF (w + 1) * chunk < total_groups THEN (w + 1) * chunk ELSE total_groups

RngInit ==
    /\ Idle("rng")
    /\ \E total_groups \in 1..MaxTotalGroups, num_workers \in 1..MaxNumWorkers :
         rng = [pc |-> "divide", total_groups |-> total_groups,
                num_workers |-> num_workers, w |-> 0, ranges |-> << >>]

\* one pass of "for w in range(NUM_WORKERS)"
RngAppendRange ==
    /\ rng.pc = "divide"
    /\ rng.w < rng.num_workers
    /\ LET chunk == chunk_size(rng.total_groups, rng.num_workers)
           start == rng.w * chunk + 1
           end   == RangeEnd(rng.w, chunk, rng.total_groups)
       IN  rng' = [rng EXCEPT
                     !.ranges = Append(@, [worker |-> rng.w + 1,
                                           start |-> start, end |-> end]),
                     !.w = @ + 1]

\* the loop is over, the workers are started with their ranges
RngLaunch ==
    /\ rng.pc = "divide"
    /\ rng.w = rng.num_workers
    /\ rng' = [rng EXCEPT !.pc = "launched"]

NextRng ==
    \/ RngAppendRange /\ Frame("rng")
    \/ RngLaunch /\ Frame("rng")

SpecRng == RngInit /\ [][NextRng]_vars

\* the indices START_INDEX..END_INDEX of the k-th range
IndicesOf(k) == rng.ranges[k].start .. rng.ranges[k].end

\* C23: the index ranges handed to the workers are pairwise disjoint and
\* together cover 1..N exactly, N being the total and one range going to
\* each of the W workers.
C23_RangesPartitionAllIndices ==
    rng.pc = "launched" =>
        /\ Len(rng.ranges) = rng.num_workers
        /\ \A k \in 1..Len(rng.ranges) : rng.ranges[k].worker = k
        /\ \A k, l \in 1..Len(rng.ranges) :
             k # l => IndicesOf(k) \cap IndicesOf(l) = {}
        /\ UNION { IndicesOf(k) : k \in 1..Len(rng.ranges) } = 1..rng.total_groups

\* the workers are launched with a total that is no multiple of their number,
\* the last of them with fewer indices than the first
C23_Witness ==
    /\ rng.pc = "launched"
    /\ rng.num_workers >= 2
    /\ rng.total_groups % rng.num_workers # 0
    /\ IndicesOf(rng.num_workers) # {}
    /\ Cardinality(IndicesOf(rng.num_workers)) < Cardinality(IndicesOf(1))
====
